---- MODULE Spec2Model ----
(***************************************************************************)
(* Spades-Bot: the GameManager round/trick state machine                   *)
(* (src/game_logic/GameManager.js with Player, Card and Deck), driven by   *)
(* the handlers of src/index.js, and the rule functions of the alternate   *)
(* engine src/game_logic/Game.js.                                          *)
(*                                                                         *)
(* Spec       the GameManager state machine from construction on: lobby,  *)
(*            bidding (one bid value) and trick play.                      *)
(* SpecBids   the lobby and the bidding of GameManager, with the bids a    *)
(*            caller can submit.                                           *)
(* SpecRules  the pure rule functions (lead / follow-suit validation and   *)
(*            trick-winner determination of both engines) applied to       *)
(*            inputs drawn from bounded sets.                              *)
(* SpecTricks trick play of the first round of GameManager, from deals     *)
(*            that include a first leader holding Spades only.             *)
(* SpecRound  the end of a round of GameManager (endRound: scoring, bag    *)
(*            penalty, game end or next round) applied to round-end states *)
(*            drawn from bounded sets, and the calls made on a game that   *)
(*            has ended.                                                   *)
(* SpecPlays  the play command of index.js on a Game in its playing phase, *)
(*            two handlers interleaved at their awaits.                    *)
(* SpecScore  the end of a round of a Game (calculateRoundScores, game     *)
(*            over or next round) from drawn last tricks.                  *)
(* SpecNotify the GameManager state machine with the private messages of   *)
(*            its calls delivered or not.                                  *)
(* SpecDeck   the Deck on its own: reset, shuffle and deal, down to the    *)
(*            empty deck and past it.                                      *)
(* SpecBags   Game.calculateRoundScores applied to rounds of 13 tricks     *)
(*            drawn with bids and bags.                                    *)
(* SpecSeats  the GameManager state machine with the join button pressed   *)
(*            by seated users as well.                                     *)
(* SpecJoin   the join button handler of index.js split at its await, the  *)
(*            handlers interleaved, and the bidding that follows.          *)
(* SpecTurns  trick play of GameManager with the scheduling of its calls,  *)
(*            for the progress of a round.                                 *)
(***************************************************************************)
EXTENDS Integers, Sequences, FiniteSets, TLC

----------------------------------------------------------------------------
(* Bounds of the model *)

\* Ranks per suit of the deck dealt in Spec (the source has 13): a hand has
\* NumRanks cards and the deck 4 * NumRanks.
NumRanks == 2

\* Number of shuffles Spec explores (the seeds of ShuffleDraw).
NumSeeds == 2

\* Ranks per suit of the cards the rule functions are applied to in SpecRules.
RuleRanks == 2

----------------------------------------------------------------------------
(* Program constants *)

NumPlayers == 4
MinBid == 1
MaxBid == 13

----------------------------------------------------------------------------
(* JavaScript values that reach a bid: a number (an integer, an integer    *)
(* plus one half, NaN), null, or some string.                              *)

JSInt(n) == [k |-> "int", v |-> n]
JSHalf(n) == [k |-> "half", v |-> n]
JSNaN == [k |-> "nan", v |-> 0]
JSNull == [k |-> "null", v |-> 0]
JSStr == [k |-> "str", v |-> 0]

\* typeof x === 'number'
TypeofNumber(x) == x.k \in {"int", "half", "nan"}

\* x < n and x > n for a JS number x and an integer n: false for NaN.
JSLt(x, n) == \/ x.k = "int" /\ x.v < n
              \/ x.k = "half" /\ x.v < n
JSGt(x, n) == \/ x.k = "int" /\ x.v > n
              \/ x.k = "half" /\ x.v >= n
JSGe(x, n) == \/ x.k = "int" /\ x.v >= n
              \/ x.k = "half" /\ x.v >= n
JSLe(x, n) == \/ x.k = "int" /\ x.v <= n
              \/ x.k = "half" /\ x.v < n

\* x === 0
JSIsZero(x) == x.k = "int" /\ x.v = 0

----------------------------------------------------------------------------
(* Strings are sequences of one-character strings.                         *)

Whitespace == {" "}
Digits == <<"0", "1", "2", "3", "4", "5", "6", "7", "8", "9">>
DigitChars == {Digits[i] : i \in 1..Len(Digits)}
DigitValue(ch) == (CHOOSE i \in 1..Len(Digits) : Digits[i] = ch) - 1

LowerLetters == <<"a", "c", "d", "h", "i", "j", "k", "l", "n", "q", "s", "t", "x">>
UpperLetters == <<"A", "C", "D", "H", "I", "J", "K", "L", "N", "Q", "S", "T", "X">>

\* String.prototype.toUpperCase, one character
UpperChar(ch) ==
    IF \E i \in 1..Len(LowerLetters) : LowerLetters[i] = ch
    THEN UpperLetters[CHOOSE i \in 1..Len(LowerLetters) : LowerLetters[i] = ch]
    ELSE ch

ToUpperCase(s) == [i \in 1..Len(s) |-> UpperChar(s[i])]

RECURSIVE TrimStart(_)
TrimStart(s) ==
    IF s # <<>> /\ Head(s) \in Whitespace THEN TrimStart(Tail(s)) ELSE s

RECURSIVE TrimEnd(_)
TrimEnd(s) ==
    IF s # <<>> /\ s[Len(s)] \in Whitespace
    THEN TrimEnd(SubSeq(s, 1, Len(s) - 1))
    ELSE s

\* String.prototype.trim
Trim(s) == TrimEnd(TrimStart(s))

\* The value of the longest prefix of digits of s, acc being the value read so far.
RECURSIVE DigitPrefixValue(_, _)
DigitPrefixValue(s, acc) ==
    IF s # <<>> /\ Head(s) \in DigitChars
    THEN DigitPrefixValue(Tail(s), 10 * acc + DigitValue(Head(s)))
    ELSE acc

\* parseInt(s, 10): leading whitespace is skipped, an optional sign is read,
\* then the longest prefix of digits; NaN when there is no digit.
ParseInt10(s) ==
    LET t == TrimStart(s)
        neg == t # <<>> /\ Head(t) = "-"
        u == IF t # <<>> /\ Head(t) \in {"-", "+"} THEN Tail(t) ELSE t
    IN  IF u = <<>> \/ Head(u) \notin DigitChars
        THEN JSNaN
        ELSE JSInt(IF neg THEN 0 - DigitPrefixValue(u, 0) ELSE DigitPrefixValue(u, 0))

----------------------------------------------------------------------------
(* Card.js and Deck.js *)

SuitCodes == <<"C", "D", "H", "S">>
RankCodes == <<"2", "3", "4", "5", "6", "7", "8", "9", "T", "J", "Q", "K", "A">>

\* The ranks a deck of n ranks per suit keeps, as indices of RankCodes: the
\* first n of A, T, K, Q, J, 2, 3, ...
RankPriority == <<13, 9, 12, 11, 10, 1, 2, 3, 4, 5, 6, 7, 8>>
KeptRanks(n) == {RankPriority[k] : k \in 1..n}

\* new Card(rankCode, suitCode)
Card(rankCode, suitCode) == [rankCode |-> rankCode, suitCode |-> suitCode]

\* RANKS_MAP[rankCode].value
CardValue(c) == (CHOOSE i \in 1..Len(RankCodes) : RankCodes[i] = c.rankCode) + 1

\* SUITS_MAP[suitCode].symbol, one element of a string
SuitSymbol(suitCode) ==
    CASE suitCode = "C" -> "(clubs)"
      [] suitCode = "D" -> "(diamonds)"
      [] suitCode = "H" -> "(hearts)"
      [] suitCode = "S" -> "(spades)"

\* card.rankText
RankText(c) == IF c.rankCode = "T" THEN <<"1", "0">> ELSE <<c.rankCode>>

\* card.code = rankText + symbol
CardCode(c) == RankText(c) \o <<SuitSymbol(c.suitCode)>>

\* card.shortDisplay = rankCode + suitCode
ShortDisplay(c) == <<c.rankCode, c.suitCode>>

\* Deck.reset(): suit by suit, rank by rank, for a deck of n ranks per suit
RECURSIVE DeckFrom(_, _, _)
DeckFrom(n, s, r) ==
    IF s > Len(SuitCodes) THEN <<>>
    ELSE IF r > Len(RankCodes) THEN DeckFrom(n, s + 1, 1)
    ELSE IF r \in KeptRanks(n)
         THEN <<Card(RankCodes[r], SuitCodes[s])>> \o DeckFrom(n, s, r + 1)
         ELSE DeckFrom(n, s, r + 1)

DeckReset(n) == DeckFrom(n, 1, 1)

CardsOf(n) == {DeckReset(n)[i] : i \in 1..Len(DeckReset(n))}

\* Math.floor(Math.random() * (i + 1)) at step i of the shuffle whose seed is
\* seed: seed 0 draws i every time (no card moves).
ShuffleDraw(seed, i) == IF i > seed THEN i - seed ELSE 0

\* Deck.shuffle(): Fisher-Yates from the last index i (0-based) down to 1
RECURSIVE ShuffleFrom(_, _, _)
ShuffleFrom(cards, seed, i) ==
    IF i < 1 THEN cards
    ELSE LET j == ShuffleDraw(seed, i)
             swapped == [cards EXCEPT ![i + 1] = cards[j + 1], ![j + 1] = cards[i + 1]]
         IN  ShuffleFrom(swapped, seed, i - 1)

DeckShuffle(cards, seed) == ShuffleFrom(cards, seed, Len(cards) - 1)

----------------------------------------------------------------------------
(* Player.js *)

\* new Player(id, username) as GameManager.addPlayer leaves it
NewPlayer(id, teamId) ==
    [discordId |-> id, hand |-> {}, bid |-> JSNull, isNil |-> FALSE,
     tricksTaken |-> 0, score |-> 0, bags |-> 0, team |-> teamId]

\* Player.resetForNewRound()
ResetForNewRound(p) ==
    [p EXCEPT !.hand = {}, !.bid = JSNull, !.isNil = FALSE, !.tricksTaken = 0]

\* Player.setBid(bidAmount)
SetBid(p, bidAmount) == [p EXCEPT !.bid = bidAmount, !.isNil = JSIsZero(bidAmount)]

\* Player.addCard(card)
AddCard(p, card) == [p EXCEPT !.hand = @ \cup {card}]

\* What a lookup of a card returns when it finds none (null, undefined)
NoCard == [rankCode |-> "none", suitCode |-> "none"]

\* Player.playCard(cardCode): the card of the hand whose code is
\* cardCode.toUpperCase(), or null
PlayCardFind(p, cardCode) ==
    LET hit == {c \in p.hand : CardCode(c) = ToUpperCase(cardCode)}
    IN  IF hit = {} THEN NoCard ELSE CHOOSE c \in hit : TRUE

----------------------------------------------------------------------------
(* GameManager.js: state *)

VARIABLES
    players,             \* this.players: the seats, in join order
    deck,                \* this.deck.cards
    isGameActive,        \* this.isGameActive
    state,               \* this.state
    currentPlayerIndex,  \* this.currentPlayerIndex (0-based)
    bidsTaken,           \* this.bidsTaken
    isBiddingActive,     \* this.isBiddingActive
    isTrickActive,       \* this.isTrickActive
    currentTrick,        \* this.currentTrick, each play with the seat whose turn it was
    trickSuit,           \* this.trickSuit ("null" or a suit code)
    spadesBroken,        \* this.spadesBroken
    firstBidder,         \* the seat startBidding named first bidder (-1: no round yet)
    lastOp,              \* the last call and how it ended
    probe,               \* SpecRules: the input a rule function is applied to
    verdict,             \* SpecRules: what the rule functions answered
    roundTricks,         \* SpecRound: the tricks each seat took in the round that ends
    gameOver,            \* checkGameEnd has found the target reached
    game,                \* index.js: the Game that activeGames holds for the channel
    handlers,            \* index.js: the play handlers in flight, each at its await
    failedDm             \* index.js: the call whose private message was the first that
                         \* could not be delivered ("none": all were delivered)

gameVars == <<players, deck, isGameActive, state, currentPlayerIndex, bidsTaken,
              isBiddingActive, isTrickActive, currentTrick, trickSuit,
              spadesBroken, firstBidder>>
ruleVars == <<probe, verdict>>
roundVars == <<roundTricks, gameOver>>
engineVars == <<game, handlers>>
vars == <<players, deck, isGameActive, state, currentPlayerIndex, bidsTaken,
          isBiddingActive, isTrickActive, currentTrick, trickSuit,
          spadesBroken, firstBidder, lastOp, probe, verdict, roundTricks, gameOver,
          game, handlers, failedDm>>

\* No input, no answer (SpecRules draws inputs and records answers of this shape)
NoProbe ==
    [kind |-> "none", hand |-> {}, card |-> [rankCode |-> "none", suitCode |-> "none"],
     broken |-> FALSE, trick |-> <<>>]
NoVerdict ==
    [kind |-> "none", accepted |-> FALSE, acceptedGame |-> FALSE,
     winner |-> <<>>, winnerGame |-> <<>>, brokenGame |-> FALSE]

\* activeGames holds no Game, no play handler is in flight and no private
\* message has failed to be delivered
NoGame == [live |-> FALSE]
EngineIdle ==
    /\ game = NoGame
    /\ handlers = <<>>
    /\ failedDm = "none"

\* The state the constructor leaves
GameInit ==
    /\ players = <<>>
    /\ deck = DeckReset(NumRanks)
    /\ isGameActive = FALSE
    /\ state = "LOBBY"
    /\ currentPlayerIndex = 0
    /\ bidsTaken = 0
    /\ isBiddingActive = FALSE
    /\ isTrickActive = FALSE
    /\ currentTrick = <<>>
    /\ trickSuit = "null"
    /\ spadesBroken = FALSE
    /\ firstBidder = -1
    /\ lastOp = [op |-> "constructor", outcome |-> "accepted", why |-> "none",
                 threw |-> FALSE]
    /\ roundTricks = <<>>
    /\ gameOver = FALSE

Init ==
    /\ GameInit
    /\ probe = NoProbe
    /\ verdict = NoVerdict
    /\ EngineIdle

\* How a call ended: accepted (it went through to the change of the state) or
\* rejected, for which of the reasons the code tells apart, and whether the
\* call returned or threw.
Ended(op, outcome, why, threw) ==
    lastOp' = [op |-> op, outcome |-> outcome, why |-> why, threw |-> threw]

Accept(op) == Ended(op, "accepted", "none", FALSE)

\* An early return that has changed nothing
Reject(op, why) == Ended(op, "rejected", why, FALSE) /\ UNCHANGED gameVars

----------------------------------------------------------------------------
(* GameManager.js: utilities *)

\* The users that act on the game: four that join and one that never does
UserSeq == <<"u1", "u2", "u3", "u4", "u5">>
Outsider == UserSeq[Len(UserSeq)]

SeatedIds == {players[i].discordId : i \in 1..Len(players)}
Callers == SeatedIds \cup {Outsider}

\* getPlayerById: the first seat (1-based) whose discordId is id, 0 for undefined
GetPlayerSeat(ps, id) ==
    LET hit == {i \in 1..Len(ps) : ps[i].discordId = id}
    IN  IF hit = {} THEN 0 ELSE CHOOSE i \in hit : \A j \in hit : i <= j

\* PeekCardInHand finding a card by its short display ('AS', 'TC') as well
PeekCardInHandByShortDisplay(p, cardCode) ==
    LET upperCode == ToUpperCase(Trim(cardCode))
        hit == {c \in p.hand : \/ ToUpperCase(CardCode(c)) = upperCode
                               \/ ShortDisplay(c) = upperCode}
    IN  IF hit = {} THEN NoCard ELSE CHOOSE c \in hit : TRUE

\* peekCardInHand(player, cardCode)
PeekCardInHand(p, cardCode) ==
    LET upperCode == ToUpperCase(Trim(cardCode))
        hit == {c \in p.hand : ToUpperCase(CardCode(c)) = upperCode}
    IN  IF hit = {} THEN NoCard ELSE CHOOSE c \in hit : TRUE

\* addPlayer(playerDetails) answers { error: 'Lobby is full!' }
AddPlayerFails(ps) == Len(ps) >= NumPlayers

\* addPlayer(playerDetails) otherwise: the players after it
AddPlayer(ps, id) == Append(ps, NewPlayer(id, IF Len(ps) % 2 = 0 THEN 2 ELSE 1))

\* IsLobbyFull finding the lobby full one player early
IsLobbyFullAtThree(ps) == Len(ps) >= NumPlayers - 1

\* isLobbyFull()
IsLobbyFull(ps) == Len(ps) >= NumPlayers

\* The loop of dealCards stopping one card early
RECURSIVE DealLoopOneShort(_, _, _, _)
DealLoopOneShort(ps, cards, i, count) ==
    IF i >= count - 1 THEN [players |-> ps, deck |-> cards]
    ELSE LET card == cards[Len(cards)]
             seat == (i % Len(ps)) + 1
         IN  DealLoopOneShort([ps EXCEPT ![seat] = AddCard(@, card)],
                              SubSeq(cards, 1, Len(cards) - 1), i + 1, count)

\* The loop of dealCards: card number i (0-based) is popped off the deck and
\* added to seat i % players.length; count is the source's 52, the size of a
\* deck of 13 ranks, here the size of the deck of NumRanks ranks
RECURSIVE DealLoop(_, _, _, _)
DealLoop(ps, cards, i, count) ==
    IF i >= count THEN [players |-> ps, deck |-> cards]
    ELSE LET card == cards[Len(cards)]
             seat == (i % Len(ps)) + 1
         IN  DealLoop([ps EXCEPT ![seat] = AddCard(@, card)],
                      SubSeq(cards, 1, Len(cards) - 1), i + 1, count)

\* dealCards(): every player reset, then the deal
DealCards(ps, cards) ==
    DealLoop([i \in 1..Len(ps) |-> ResetForNewRound(ps[i])], cards, 0, Len(cards))

----------------------------------------------------------------------------
(* GameManager.js: lobby and start *)

\* The id a join is explored with: the next user that has not joined yet
\* (the fifth finds the lobby full)
JoinIds == {UserSeq[Len(players) + 1]}

Seeds == 0..(NumSeeds - 1)

\* startGame() with exactly 4 players: reset, shuffle, dealCards, startBidding
StartGame(ps, seed) ==
    LET dealt == DealCards(ps, DeckShuffle(DeckReset(NumRanks), seed))
    IN  /\ isGameActive' = TRUE
        /\ players' = dealt.players
        /\ deck' = dealt.deck
        /\ state' = "BIDDING"
        /\ isBiddingActive' = TRUE
        /\ bidsTaken' = 0
        /\ firstBidder' = currentPlayerIndex
        /\ UNCHANGED <<currentPlayerIndex, isTrickActive, currentTrick, trickSuit,
                       spadesBroken>>

\* game.addPlayer(details) called on its own, as the /spades start handler does
AddPlayerCall(id) ==
    /\ IF AddPlayerFails(players)
       THEN Reject("addPlayer", "lobbyFull")
       ELSE /\ players' = AddPlayer(players, id)
            /\ Accept("addPlayer")
            /\ UNCHANGED <<deck, isGameActive, state, currentPlayerIndex, bidsTaken,
                           isBiddingActive, isTrickActive, currentTrick, trickSuit,
                           spadesBroken, firstBidder>>
    /\ UNCHANGED <<ruleVars, roundVars, engineVars, failedDm>>

\* The join button handler: the lobby must be open, addPlayer, and startGame
\* as soon as the lobby is full
JoinHandler(id, seed) ==
    /\ IF state # "LOBBY" THEN Reject("join", "notLobby")
       ELSE IF AddPlayerFails(players) THEN Reject("join", "lobbyFull")
       ELSE IF IsLobbyFull(AddPlayer(players, id))
       THEN /\ StartGame(AddPlayer(players, id), seed)
            /\ Accept("join")
       ELSE /\ players' = AddPlayer(players, id)
            /\ Accept("join")
            /\ UNCHANGED <<deck, isGameActive, state, currentPlayerIndex, bidsTaken,
                           isBiddingActive, isTrickActive, currentTrick, trickSuit,
                           spadesBroken, firstBidder>>
    /\ UNCHANGED <<ruleVars, roundVars, engineVars, failedDm>>

----------------------------------------------------------------------------
(* GameManager.js: bidding *)

\* The string 'NIL' validateBid returns
NilToken == JSStr

\* validateBid(rawBidValue)
ValidateBid(rawBidValue) ==
    LET value == ToUpperCase(Trim(rawBidValue))
        num == ParseInt10(value)
    IN  IF value = <<"N", "I", "L">> THEN NilToken
        ELSE IF JSGe(num, MinBid) /\ JSLe(num, MaxBid) THEN num
        ELSE JSNull

\* tryPlaceBid's check of bidAmount: true when the amount is refused
BidAmountRefused(bidAmount) ==
    ~TypeofNumber(bidAmount) \/ JSLt(bidAmount, 0) \/ JSGt(bidAmount, MaxBid)

\* NotBidTurn without the comparison of the ids: anyone bids for the seat whose
\* turn it is
NotBidTurnUnchecked(playerId) == FALSE

\* The check of the turn in processBid and tryPlaceBid: true when it is not
\* playerId's turn
NotBidTurn(playerId) == players[currentPlayerIndex + 1].discordId # playerId

\* AdvanceTurn skipping a seat
AdvanceTurnByTwo(index, n) == (index + 2) % n

\* AdvanceTurn leaving the turn where it is
AdvanceTurnNowhere(index, n) == index % n

\* advanceTurn(phase): the next index
AdvanceTurn(index, n) == (index + 1) % n

\* currentPlayer.setBid(bidAmount); this.bidsTaken++; then advanceTurn('bid')
\* or endBidding() and with it startTricks()
RecordBid(bidAmount) ==
    /\ players' = [players EXCEPT ![currentPlayerIndex + 1] = SetBid(@, bidAmount)]
    /\ bidsTaken' = bidsTaken + 1
    /\ IF bidsTaken + 1 < Len(players)
       THEN /\ currentPlayerIndex' = AdvanceTurn(currentPlayerIndex, Len(players))
            /\ UNCHANGED <<isBiddingActive, isTrickActive, currentTrick, trickSuit>>
       ELSE /\ isBiddingActive' = FALSE
            /\ isTrickActive' = TRUE
            /\ currentTrick' = <<>>
            /\ trickSuit' = "null"
            /\ UNCHANGED currentPlayerIndex
    /\ UNCHANGED <<deck, isGameActive, state, spadesBroken, firstBidder>>

\* BiddingClosed closing the bidding in the lobby only
BiddingClosedInLobbyOnly == ~isBiddingActive /\ ~isTrickActive

\* The first check of processBid: true when bidding is not active
BiddingClosed == ~isBiddingActive

\* The first check of tryPlaceBid
BidPlacingClosed == ~isBiddingActive \/ state # "BIDDING"

\* processBid(playerId, rawBidValue)
ProcessBid(playerId, rawBidValue) ==
    /\ IF BiddingClosed THEN Reject("processBid", "biddingInactive")
       ELSE IF NotBidTurn(playerId) THEN Reject("processBid", "notYourTurn")
       ELSE IF ValidateBid(rawBidValue) = JSNull THEN Reject("processBid", "invalidBid")
       ELSE /\ RecordBid(IF ValidateBid(rawBidValue) = NilToken
                         THEN JSInt(0) ELSE ValidateBid(rawBidValue))
            /\ Accept("processBid")
    /\ UNCHANGED <<ruleVars, roundVars, engineVars, failedDm>>

\* The body of tryPlaceBid(playerId, bidAmount), reached by the call op
PlaceBid(op, playerId, bidAmount) ==
    IF BidPlacingClosed THEN Reject(op, "biddingInactive")
    ELSE IF NotBidTurn(playerId) THEN Reject(op, "notYourTurn")
    ELSE IF BidAmountRefused(bidAmount) THEN Reject(op, "invalidBid")
    ELSE /\ RecordBid(bidAmount)
         /\ Accept(op)

\* tryPlaceBid(playerId, bidAmount)
TryPlaceBid(playerId, bidAmount) ==
    /\ PlaceBid("tryPlaceBid", playerId, bidAmount)
    /\ UNCHANGED <<ruleVars, roundVars, engineVars, failedDm>>

\* The bid button handler of index.js, bidPart being the third part of the
\* button's customId: the game must be in state BIDDING and the user one of
\* its players, then tryPlaceBid with 0 for 'nil' and parseInt otherwise
BidButton(userId, bidPart) ==
    LET bidAmount == IF bidPart = <<"n", "i", "l">> THEN JSInt(0) ELSE ParseInt10(bidPart)
    IN  /\ IF state # "BIDDING" THEN Reject("bidButton", "noGame")
           ELSE IF GetPlayerSeat(players, userId) = 0 THEN Reject("bidButton", "notAPlayer")
           ELSE PlaceBid("bidButton", userId, bidAmount)
        /\ UNCHANGED <<ruleVars, roundVars, engineVars, failedDm>>

\* The raw texts processBid is called with in SpecBids: ' nil ', 'NIL', '5',
\* '13', '14', '0', '-1', '7x', '7.5', 'x' and ''
RawBids ==
    {<<" ", "n", "i", "l", " ">>, <<"N", "I", "L">>, <<"5">>, <<"1", "3">>,
     <<"1", "4">>, <<"0">>, <<"-", "1">>, <<"7", "x">>, <<"7", ".", "5">>,
     <<"x">>, <<>>}

\* The amounts tryPlaceBid is called with in SpecBids: -1, 0, 13, 14, 5.5,
\* NaN, a string and null
BidAmounts ==
    {JSInt(-1), JSInt(0), JSInt(13), JSInt(14), JSHalf(5), JSNaN, JSStr, JSNull}

\* The third parts of the customId the bid button handler is called with in
\* SpecBids: 'nil', '5', '14', '7x' and 'x'
BidParts == {<<"n", "i", "l">>, <<"5">>, <<"1", "4">>, <<"7", "x">>, <<"x">>}

\* The raw text, the amount and the part the three are called with in Spec
PlayRawBids == {<<"3">>}
PlayBidAmounts == {JSInt(3)}
PlayBidParts == {<<"3">>}

----------------------------------------------------------------------------
(* GameManager.js: trick play *)

\* LeadRefused without the look at the rest of the hand
LeadRefusedWhateverHand(hand, card, broken) == card.suitCode = "S" /\ ~broken

\* processCardPlay, leading: the Spade lead that is refused
\* (hasOnlySpades = player.hand.every(c => c.suitCode === 'S'))
LeadRefused(hand, card, broken) ==
    LET hasOnlySpades == \A c \in hand : c.suitCode = "S"
    IN  card.suitCode = "S" /\ ~broken /\ ~hasOnlySpades

\* FollowRefused without the look at the hand
FollowRefusedWhateverHand(hand, card, ledSuit) == card.suitCode # ledSuit

\* processCardPlay, following: the card off the led suit that is refused
\* (hasLedSuit = player.hand.some(c => c.suitCode === this.trickSuit))
FollowRefused(hand, card, ledSuit) ==
    LET hasLedSuit == \E c \in hand : c.suitCode = ledSuit
    IN  card.suitCode # ledSuit /\ hasLedSuit

\* TrickReducer without the led suit: the higher card wins among non-Spades
TrickReducerByRank(winningEntry, currentEntry, ledSuitCode) ==
    LET winningCard == winningEntry.card
        currentCard == currentEntry.card
    IN  IF currentCard.suitCode = "S" /\ winningCard.suitCode # "S" THEN currentEntry
        ELSE IF winningCard.suitCode = "S" /\ currentCard.suitCode # "S" THEN winningEntry
        ELSE IF CardValue(currentCard) > CardValue(winningCard) THEN currentEntry
        ELSE winningEntry

\* The callback of the reduce in getWinnerOfTrick: the entry that stays the
\* winner when currentEntry meets winningEntry
TrickReducer(winningEntry, currentEntry, ledSuitCode) ==
    LET winningCard == winningEntry.card
        currentCard == currentEntry.card
        isWinningCardSpade == winningCard.suitCode = "S"
        isCurrentCardSpade == currentCard.suitCode = "S"
        isWinningCardLedSuit == winningCard.suitCode = ledSuitCode
        isCurrentCardLedSuit == currentCard.suitCode = ledSuitCode
    IN  IF isCurrentCardSpade /\ ~isWinningCardSpade THEN currentEntry
        ELSE IF isWinningCardSpade /\ ~isCurrentCardSpade THEN winningEntry
        ELSE IF isCurrentCardSpade /\ isWinningCardSpade
             THEN (IF CardValue(currentCard) > CardValue(winningCard)
                   THEN currentEntry ELSE winningEntry)
        ELSE IF isCurrentCardLedSuit /\ ~isWinningCardLedSuit THEN currentEntry
        ELSE IF isCurrentCardLedSuit /\ CardValue(currentCard) > CardValue(winningCard)
             THEN currentEntry
        ELSE winningEntry

RECURSIVE TrickReduce(_, _, _, _)
TrickReduce(trick, i, winningEntry, ledSuitCode) ==
    IF i > Len(trick) THEN winningEntry
    ELSE TrickReduce(trick, i + 1,
                     TrickReducer(winningEntry, trick[i], ledSuitCode), ledSuitCode)

\* getWinnerOfTrick(): currentTrick.reduce(callback, currentTrick[0])
GetWinnerOfTrick(trick, ledSuitCode) == TrickReduce(trick, 1, trick[1], ledSuitCode)

\* BreaksSpades for any Spade, whatever suit was led
BreaksSpadesOnAnySpade(playedCard, ledSuit, broken) ==
    playedCard.suitCode = "S" /\ ~broken

\* The update of spadesBroken in processCardPlay, true when spadesBroken is set
\* and "SPADES HAVE BEEN BROKEN!" is announced
BreaksSpades(playedCard, ledSuit, broken) ==
    playedCard.suitCode = "S" /\ ledSuit # "S" /\ ~broken

\* The check of the turn in processCardPlay: true when it is not playerId's turn
NotPlayTurn(playerId) == players[currentPlayerIndex + 1].discordId # playerId

\* processCardPlay from the play of the card on, with a playCard that finds
\* the card and leaves it in the hand
PlayTheCardKeepingHand(playerId, seat, rawCard, ledSuit) ==
    LET playedCard == PlayCardFind(players[seat], ToUpperCase(Trim(rawCard)))
    IN  IF playedCard = NoCard
        THEN /\ trickSuit' = ledSuit
             /\ Ended("processCardPlay", "rejected", "internalError", FALSE)
             /\ UNCHANGED <<players, deck, isGameActive, state, currentPlayerIndex,
                            bidsTaken, isBiddingActive, isTrickActive, currentTrick,
                            spadesBroken, firstBidder>>
        ELSE /\ currentTrick' = Append(currentTrick,
                    [playerId |-> playerId, card |-> playedCard,
                     seat |-> currentPlayerIndex])
             /\ trickSuit' = ledSuit
             /\ spadesBroken' = (spadesBroken \/ BreaksSpades(playedCard, ledSuit, spadesBroken))
             /\ IF Len(currentTrick) + 1 = Len(players)
                THEN UNCHANGED currentPlayerIndex
                ELSE currentPlayerIndex' = AdvanceTurn(currentPlayerIndex, Len(players))
             /\ Ended("processCardPlay", "accepted",
                      IF BreaksSpades(playedCard, ledSuit, spadesBroken)
                      THEN "spadesBroken" ELSE "none", TRUE)
             /\ UNCHANGED <<players, deck, isGameActive, state, bidsTaken,
                            isBiddingActive, isTrickActive, firstBidder>>

\* processCardPlay from the play of the card on: the card leaves the hand of
\* the player found by id and joins the trick, spadesBroken is updated; on the
\* 4th card evaluateTrick() and endTrick() run, and endTrick throws at
\* winner.addTrick(), which Player does not define, before it changes
\* anything; otherwise advanceTurn('trick') moves the turn, and its
\* sendPlayCardPrompt throws at Card.CARD_EMOJIS[...], which Card does not
\* define, after the turn has moved. The why of the call is "spadesBroken"
\* when it has announced that Spades are broken.
PlayTheCard(playerId, seat, rawCard, ledSuit) ==
    LET playedCard == PlayCardFind(players[seat], ToUpperCase(Trim(rawCard)))
    IN  IF playedCard = NoCard
        THEN /\ trickSuit' = ledSuit
             /\ Ended("processCardPlay", "rejected", "internalError", FALSE)
             /\ UNCHANGED <<players, deck, isGameActive, state, currentPlayerIndex,
                            bidsTaken, isBiddingActive, isTrickActive, currentTrick,
                            spadesBroken, firstBidder>>
        ELSE /\ players' = [players EXCEPT ![seat].hand = @ \ {playedCard}]
             /\ currentTrick' = Append(currentTrick,
                    [playerId |-> playerId, card |-> playedCard,
                     seat |-> currentPlayerIndex])
             /\ trickSuit' = ledSuit
             /\ spadesBroken' = (spadesBroken \/ BreaksSpades(playedCard, ledSuit, spadesBroken))
             /\ IF Len(currentTrick) + 1 = Len(players)
                THEN UNCHANGED currentPlayerIndex
                ELSE currentPlayerIndex' = AdvanceTurn(currentPlayerIndex, Len(players))
             /\ Ended("processCardPlay", "accepted",
                      IF BreaksSpades(playedCard, ledSuit, spadesBroken)
                      THEN "spadesBroken" ELSE "none", TRUE)
             /\ UNCHANGED <<deck, isGameActive, state, bidsTaken, isBiddingActive,
                            isTrickActive, firstBidder>>

\* processCardPlay(playerId, rawCard)
ProcessCardPlay(playerId, rawCard) ==
    /\ IF ~isTrickActive THEN Reject("processCardPlay", "trickInactive")
       ELSE IF GetPlayerSeat(players, playerId) = 0
            THEN Reject("processCardPlay", "unknownPlayer")
       ELSE IF NotPlayTurn(playerId) THEN Reject("processCardPlay", "notYourTurn")
       ELSE LET seat == GetPlayerSeat(players, playerId)
                cardToCheck == PeekCardInHand(players[seat], rawCard)
            IN  IF cardToCheck = NoCard THEN Reject("processCardPlay", "noSuchCard")
                ELSE IF Len(currentTrick) = 0
                THEN IF LeadRefused(players[seat].hand, cardToCheck, spadesBroken)
                     THEN Reject("processCardPlay", "spadesNotBroken")
                     ELSE PlayTheCard(playerId, seat, rawCard, cardToCheck.suitCode)
                ELSE IF FollowRefused(players[seat].hand, cardToCheck, trickSuit)
                     THEN /\ Ended("processCardPlay", "rejected", "mustFollowSuit", TRUE)
                          /\ UNCHANGED gameVars
                     ELSE PlayTheCard(playerId, seat, rawCard, trickSuit)
    /\ UNCHANGED <<ruleVars, roundVars, engineVars, failedDm>>

\* String.prototype.toLowerCase, to write the texts a player types
LowerChar(ch) ==
    IF \E i \in 1..Len(UpperLetters) : UpperLetters[i] = ch
    THEN LowerLetters[CHOOSE i \in 1..Len(UpperLetters) : UpperLetters[i] = ch]
    ELSE ch

\* What a player types for a card: its code in lower case between blanks
TypedCode(c) ==
    <<" ">> \o [i \in 1..Len(CardCode(c)) |-> LowerChar(CardCode(c)[i])] \o <<" ">>

\* The texts processCardPlay is called with: what a player types for every
\* card of the deck, and the two examples of its prompt, 'AS' and 'TC', which
\* are short displays
RawCards ==
    {TypedCode(c) : c \in CardsOf(NumRanks)}
    \cup {ShortDisplay(Card("A", "S")), ShortDisplay(Card("T", "C"))}

----------------------------------------------------------------------------
(* The GameManager state machine *)

Next ==
    \/ \E id \in JoinIds : AddPlayerCall(id)
    \/ \E id \in JoinIds, seed \in Seeds : JoinHandler(id, seed)
    \/ \E id \in Callers, raw \in PlayRawBids : ProcessBid(id, raw)
    \/ \E id \in Callers, amount \in PlayBidAmounts : TryPlaceBid(id, amount)
    \/ \E id \in Callers, part \in PlayBidParts : BidButton(id, part)
    \/ \E id \in Callers, raw \in RawCards : ProcessCardPlay(id, raw)

Spec == Init /\ [][Next]_vars

----------------------------------------------------------------------------
(* The lobby and the bidding of GameManager *)

NextBids ==
    \/ \E id \in JoinIds : AddPlayerCall(id)
    \/ \E id \in JoinIds, seed \in Seeds : JoinHandler(id, seed)
    \/ \E id \in Callers, raw \in RawBids : ProcessBid(id, raw)
    \/ \E id \in Callers, amount \in BidAmounts : TryPlaceBid(id, amount)
    \/ \E id \in Callers, part \in BidParts : BidButton(id, part)

SpecBids == Init /\ [][NextBids]_vars

----------------------------------------------------------------------------
(* Bidding: turn, order and values (SpecBids) *)

\* A step that has rejected a call and changed nothing of the game
RejectedUnchanged == lastOp'.outcome = "rejected" /\ UNCHANGED gameVars

\* C1: while bidding is active, a bid submitted through processBid or
\* tryPlaceBid by anyone but the player at players[currentPlayerIndex] is
\* rejected, and the rejection changes no player's bid, nor bidsTaken, nor
\* currentPlayerIndex, nor a phase flag (nothing of the game at all). Stated
\* from the step: a step taken while bidding is active that is not a rejection
\* without change is no processBid and no tryPlaceBid of such a caller.
C1_OutOfTurnBidRejected ==
    [][(isBiddingActive /\ ~RejectedUnchanged) =>
          \A id \in Callers \ {players[currentPlayerIndex + 1].discordId} :
              /\ \A raw \in RawBids : ~ProcessBid(id, raw)
              /\ \A amount \in BidAmounts : ~TryPlaceBid(id, amount)
      ]_vars

\* A seated player has bid out of turn, after another bid was recorded, and was
\* turned away for it
C1_Witness ==
    /\ isBiddingActive
    /\ bidsTaken > 0
    /\ lastOp = [op |-> "tryPlaceBid", outcome |-> "rejected",
                 why |-> "notYourTurn", threw |-> FALSE]

\* The calls that submit a bid
BidOps == {"processBid", "tryPlaceBid", "bidButton"}

\* C2: every accepted bid is recorded on the seat whose turn it is, which had
\* no bid yet and is the seat bidsTaken places after the round's first bidder;
\* it leaves the other seats as they were, increases bidsTaken by exactly 1
\* and, while fewer than 4 bids are taken, moves the turn to the next seat
\* modulo 4. So the four bids of a round come from the four seats in seat
\* order from the first bidder, one each, whatever the values bid.
C2_BidsInSeatOrder ==
    [][(lastOp'.op \in BidOps /\ lastOp'.outcome = "accepted") =>
          LET seat == currentPlayerIndex + 1
          IN  /\ bidsTaken' = bidsTaken + 1
              /\ bidsTaken' <= NumPlayers
              /\ currentPlayerIndex = (firstBidder + bidsTaken) % NumPlayers
              /\ players[seat].bid = JSNull
              /\ players'[seat].bid # JSNull
              /\ players'[seat].isNil = (players'[seat].bid = JSInt(0))
              /\ \A other \in 1..NumPlayers :
                     other # seat => players'[other] = players[other]
              /\ bidsTaken' < NumPlayers =>
                     currentPlayerIndex' = (currentPlayerIndex + 1) % NumPlayers
      ]_vars

\* The four bids of a round are taken and no two of them have the same value
C2_Witness ==
    /\ bidsTaken = NumPlayers
    /\ Cardinality({players[i].bid : i \in 1..NumPlayers}) = NumPlayers

\* C3: every recorded bid is unset or an integer in 0..13.
C3_RecordedBidsAreIntegers ==
    \A i \in 1..Len(players) :
        \/ players[i].bid = JSNull
        \/ players[i].bid.k = "int" /\ players[i].bid.v \in 0..MaxBid

----------------------------------------------------------------------------
(* Phases, first leader and order of play (Spec) *)

\* C4: a bid submitted when bidding is not active (in the lobby, or once the
\* fourth bid of the round has been accepted and tricks are played) is
\* rejected and changes no bid, counter, turn index or phase (nothing of the
\* game at all). Stated from the step: a step taken while bidding is not
\* active that is not a rejection without change is no processBid, no
\* tryPlaceBid and no bid button.
C4_BidOutsideBiddingRejected ==
    [][(~isBiddingActive /\ ~RejectedUnchanged) =>
          \A id \in Callers :
              /\ \A raw \in PlayRawBids : ~ProcessBid(id, raw)
              /\ \A amount \in PlayBidAmounts : ~TryPlaceBid(id, amount)
              /\ \A part \in PlayBidParts : ~BidButton(id, part)
      ]_vars

\* A bid was submitted with cards on the table, and turned away because
\* bidding is not active
C4_Witness ==
    /\ isTrickActive
    /\ Len(currentTrick) > 0
    /\ lastOp = [op |-> "processBid", outcome |-> "rejected",
                 why |-> "biddingInactive", threw |-> FALSE]

\* C5: once the fourth bid of the round has been accepted, state is PLAYING.
C5_PlayingAfterFourthBid ==
    bidsTaken = NumPlayers => state = "PLAYING"

\* C6: when the fourth bid of the round has been accepted, the seat that leads
\* the first trick (the seat whose turn it is while no card has been played)
\* is the seat that bid first in the round.
C6_FirstLeaderIsFirstBidder ==
    (bidsTaken = NumPlayers /\ isTrickActive /\ currentTrick = <<>>) =>
        currentPlayerIndex = firstBidder

\* C9: the current trick holds at most four plays, and they come from the
\* four seats in seat order from the leader's seat, one card each.
C9_TrickPlaysInSeatOrder ==
    /\ Len(currentTrick) <= NumPlayers
    /\ \A k \in 1..Len(currentTrick) :
           currentTrick[k].seat = (currentTrick[1].seat + k - 1) % NumPlayers

\* An accepted play of a card
AcceptedPlay == lastOp'.op = "processCardPlay" /\ lastOp'.outcome = "accepted"

\* C11: when the fourth card of a trick that is not the last of the round is
\* played, the trick is resolved, and the turn is then with the player who won
\* it (the winner getWinnerOfTrick names among the four plays).
C11_WinnerLeadsNextTrick ==
    [][(/\ AcceptedPlay
        /\ Len(currentTrick) = NumPlayers - 1
        /\ players'[currentPlayerIndex + 1].hand # {}) =>
          players'[currentPlayerIndex' + 1].discordId =
              GetWinnerOfTrick(currentTrick', trickSuit').playerId
      ]_vars

\* C12: once the last card of the round is played (the four bids are taken
\* and the four hands are empty), the last trick is resolved and the round is
\* scored: endTrick and endRound have ended trick play (isTrickActive is
\* false).
C12_RoundScoredAfterLastTrick ==
    (bidsTaken = NumPlayers /\ \A i \in 1..Len(players) : players[i].hand = {}) =>
        ~isTrickActive

----------------------------------------------------------------------------
(* The cards of a round (Spec) *)

\* The number of cards of a full deck: the source's 52, for NumRanks ranks
DeckSize == Len(DeckReset(NumRanks))

\* The number of cards in the hands of the seats from seat i on
RECURSIVE HandCardsFrom(_, _)
HandCardsFrom(ps, i) ==
    IF i > Len(ps) THEN 0 ELSE Cardinality(ps[i].hand) + HandCardsFrom(ps, i + 1)

NewGamePlayer(id) ==
    [id |-> id, hand |-> {}, bid |-> 0, tricks |-> 0, score |-> 0, bags |-> 0]

\* Game.js, the suits and the ranks of createDeck ('10' is written T)
GameSuits == <<"S", "H", "D", "C">>
GameRanks == <<"A", "K", "Q", "J", "T", "9", "8", "7", "6", "5", "4", "3", "2">>

\* Game.createDeck(): suit by suit, rank by rank, for a deck of n ranks per
\* suit (the ranks Deck.reset keeps)
RECURSIVE GameDeckFrom(_, _, _)
GameDeckFrom(n, s, r) ==
    IF s > Len(GameSuits) THEN <<>>
    ELSE IF r > Len(GameRanks) THEN GameDeckFrom(n, s + 1, 1)
    ELSE IF \E k \in KeptRanks(n) : RankCodes[k] = GameRanks[r]
         THEN <<Card(GameRanks[r], GameSuits[s])>> \o GameDeckFrom(n, s, r + 1)
         ELSE GameDeckFrom(n, s, r + 1)

GameCreateDeck(n) == GameDeckFrom(n, 1, 1)

\* The loops of Game.dealCards: rounds times (the source's 13), every player
\* in turn takes the card popped off the deck, if there is one; i counts the
\* cards asked for
RECURSIVE GameDealLoop(_, _, _, _)
GameDealLoop(ps, cards, i, rounds) ==
    IF i >= rounds * Len(ps) THEN [players |-> ps, deck |-> cards]
    ELSE IF cards = <<>> THEN GameDealLoop(ps, cards, i + 1, rounds)
    ELSE LET card == cards[Len(cards)]
             seat == (i % Len(ps)) + 1
         IN  GameDealLoop([ps EXCEPT ![seat].hand = @ \cup {card}],
                          SubSeq(cards, 1, Len(cards) - 1), i + 1, rounds)

\* Game.dealCards(): createDeck, shuffleDeck, the deal
GameDealCards(ps, seed) ==
    GameDealLoop(ps, ShuffleFrom(GameCreateDeck(NumRanks), seed,
                                 Len(GameCreateDeck(NumRanks)) - 1), 0, NumRanks)

\* A full deck: a card for every suit and every rank, no card twice
FullDeck(cards) ==
    /\ Len(cards) = Len(SuitCodes) * NumRanks
    /\ \A i, j \in 1..Len(cards) : i # j => cards[i] # cards[j]

\* The deal of the deck full to the players ps, rest being what is left of it
WellDealt(ps, rest, full) ==
    /\ Len(ps) = NumPlayers
    /\ rest = <<>>
    /\ \A i \in 1..Len(ps) : Cardinality(ps[i].hand) = NumRanks
    /\ \A i, j \in 1..Len(ps) : i # j => ps[i].hand \cap ps[j].hand = {}
    /\ UNION {ps[i].hand : i \in 1..Len(ps)} = {full[k] : k \in 1..Len(full)}

\* A step that deals: bidding opens (startBidding follows every deal)
DealStep == isBiddingActive' /\ ~isBiddingActive

\* C14: every deal rebuilds a full deck of distinct cards and leaves every one
\* of the 4 players with a full hand (13 cards in the source, NumRanks here),
\* the four hands pairwise disjoint and together the whole deck, and the deck
\* empty: for the deal of GameManager that the step has made, and for the
\* deal of Game to the same four users, whatever the shuffle.
C14_DealIsAPartitionOfTheDeck ==
    [][DealStep =>
          /\ FullDeck(DeckReset(NumRanks))
          /\ WellDealt(players', deck', DeckReset(NumRanks))
          /\ FullDeck(GameCreateDeck(NumRanks))
          /\ \A seed \in Seeds :
                 LET dealt == GameDealCards(
                         [i \in 1..Len(players') |-> NewGamePlayer(players'[i].discordId)],
                         seed)
                 IN  WellDealt(dealt.players, dealt.deck, GameCreateDeck(NumRanks))
      ]_vars

\* The fourth player has joined and the deal is made: bidding is open, no bid
\* is taken and every card of the deck is in a hand
C14_Witness ==
    /\ lastOp.op = "join"
    /\ isBiddingActive
    /\ bidsTaken = 0
    /\ HandCardsFrom(players, 1) = DeckSize

----------------------------------------------------------------------------
(* Game.js: the rules of the alternate engine *)

\* getCardFromInput, the validation of the rules: true when the card found in
\* the hand is answered with an error (trick: the plays of the current trick)
GetCardFromInputRefused(hand, card, trick, broken) ==
    LET suit == card.suitCode
        isLeading == Len(trick) = 0
        hasNonSpade == \E c \in hand : c.suitCode # "S"
    IN  \/ isLeading /\ suit = "S" /\ ~broken /\ hasNonSpade
        \/ /\ ~isLeading
           /\ suit # trick[1].card.suitCode
           /\ \E c \in hand : c.suitCode = trick[1].card.suitCode

\* One turn of the loop of determineTrickWinner
GameTrickStep(winningPlay, currentPlay, leadSuit) ==
    LET currentCard == currentPlay.card
        winningCard == winningPlay.card
    IN  IF currentCard.suitCode = "S" /\ winningCard.suitCode # "S" THEN currentPlay
        ELSE IF currentCard.suitCode = "S" /\ winningCard.suitCode = "S"
             THEN (IF CardValue(currentCard) > CardValue(winningCard)
                   THEN currentPlay ELSE winningPlay)
        ELSE IF currentCard.suitCode = leadSuit /\ winningCard.suitCode = leadSuit
             THEN (IF CardValue(currentCard) > CardValue(winningCard)
                   THEN currentPlay ELSE winningPlay)
        ELSE winningPlay

RECURSIVE GameTrickLoop(_, _, _, _)
GameTrickLoop(trick, i, winningPlay, leadSuit) ==
    IF i > Len(trick) THEN winningPlay
    ELSE GameTrickLoop(trick, i + 1,
                       GameTrickStep(winningPlay, trick[i], leadSuit), leadSuit)

\* determineTrickWinner() on a trick of 4 plays: the winning play
DetermineTrickWinner(trick) ==
    GameTrickLoop(trick, 2, trick[1], trick[1].card.suitCode)

\* determineTrickWinner(): spadesBroken after it
BrokenAfterWinner(trick, broken) ==
    broken \/ DetermineTrickWinner(trick).card.suitCode = "S"

----------------------------------------------------------------------------
(* The rule functions applied to drawn inputs *)

RuleCards == CardsOf(RuleRanks)

\* The play of card c as the n-th of a trick
PlayOf(c, n) == [playerId |-> UserSeq[n], card |-> c, seat |-> n - 1]

\* A hand, a card of it and spadesBroken, for a play that leads a trick
LeadProbe(hand, card, broken) ==
    [kind |-> "lead", hand |-> hand, card |-> card, broken |-> broken, trick |-> <<>>]

\* A hand, a card of it and the card that led the trick, for a play that follows
FollowProbe(hand, card, ledCard) ==
    [kind |-> "follow", hand |-> hand, card |-> card, broken |-> FALSE,
     trick |-> <<PlayOf(ledCard, 1)>>]

\* A complete trick of four cards
WinnerProbe(c1, c2, c3, c4) ==
    [kind |-> "winner", hand |-> {}, card |-> NoCard, broken |-> FALSE,
     trick |-> <<PlayOf(c1, 1), PlayOf(c2, 2), PlayOf(c3, 3), PlayOf(c4, 4)>>]

\* Every hand with every card of it, led with spadesBroken false and true or
\* played on every card outside the hand; every trick of four distinct cards
InitRules ==
    /\ GameInit
    /\ verdict = NoVerdict
    /\ EngineIdle
    /\ \/ \E hand \in SUBSET RuleCards : \E card \in hand : \E broken \in BOOLEAN :
              probe = LeadProbe(hand, card, broken)
       \/ \E hand \in SUBSET RuleCards : \E card \in hand : \E ledCard \in RuleCards \ hand :
              probe = FollowProbe(hand, card, ledCard)
       \/ \E c1 \in RuleCards : \E c2 \in RuleCards \ {c1} :
              \E c3 \in RuleCards \ {c1, c2} : \E c4 \in RuleCards \ {c1, c2, c3} :
                  probe = WinnerProbe(c1, c2, c3, c4)

\* Both engines validate the lead of probe.card out of probe.hand
ApplyLead ==
    /\ probe.kind = "lead" /\ verdict.kind = "none"
    /\ verdict' = [NoVerdict EXCEPT
           !.kind = "lead",
           !.accepted = ~LeadRefused(probe.hand, probe.card, probe.broken),
           !.acceptedGame = ~GetCardFromInputRefused(probe.hand, probe.card,
                                                     probe.trick, probe.broken)]
    /\ UNCHANGED <<gameVars, lastOp, probe, roundVars, engineVars, failedDm>>

\* Both engines validate probe.card out of probe.hand on the trick probe.trick,
\* whose first card fixed trickSuit
ApplyFollow ==
    /\ probe.kind = "follow" /\ verdict.kind = "none"
    /\ verdict' = [NoVerdict EXCEPT
           !.kind = "follow",
           !.accepted = ~FollowRefused(probe.hand, probe.card,
                                       probe.trick[1].card.suitCode),
           !.acceptedGame = ~GetCardFromInputRefused(probe.hand, probe.card,
                                                     probe.trick, probe.broken)]
    /\ UNCHANGED <<gameVars, lastOp, probe, roundVars, engineVars, failedDm>>

\* Both engines determine the winner of the complete trick probe.trick
ApplyWinner ==
    /\ probe.kind = "winner" /\ verdict.kind = "none"
    /\ verdict' = [NoVerdict EXCEPT
           !.kind = "winner",
           !.winner = GetWinnerOfTrick(probe.trick, probe.trick[1].card.suitCode),
           !.winnerGame = DetermineTrickWinner(probe.trick),
           !.brokenGame = BrokenAfterWinner(probe.trick, probe.broken)]
    /\ UNCHANGED <<gameVars, lastOp, probe, roundVars, engineVars, failedDm>>

NextRules == ApplyLead \/ ApplyFollow \/ ApplyWinner

SpecRules == InitRules /\ [][NextRules]_vars

----------------------------------------------------------------------------
(* The rules of play (SpecRules) *)

\* C7: for every hand and every card of it, the lead of the card is refused,
\* by GameManager and by Game alike, exactly when the card is a Spade,
\* spadesBroken is false and the hand holds at least one card that is not a
\* Spade; so a hand of Spades only leads a Spade whatever spadesBroken is, and
\* any hand does once spadesBroken is true.
C7_SpadeLeadRule ==
    verdict.kind = "lead" =>
        LET refused == /\ probe.card.suitCode = "S"
                       /\ ~probe.broken
                       /\ \E c \in probe.hand : c.suitCode # "S"
        IN  /\ verdict.accepted = ~refused
            /\ verdict.acceptedGame = ~refused

\* A hand of two Spades or more has led a Spade with spadesBroken false
C7_Witness ==
    /\ verdict.kind = "lead"
    /\ verdict.accepted /\ verdict.acceptedGame
    /\ ~probe.broken
    /\ Cardinality(probe.hand) > 1
    /\ \A c \in probe.hand : c.suitCode = "S"

\* C8: for every play that does not lead, a card whose suit is not the suit
\* of the first card of the trick is refused, by GameManager and by Game
\* alike, exactly when the hand holds at least one card of that suit; a hand
\* with no card of the led suit plays any of its cards.
C8_FollowSuitRule ==
    verdict.kind = "follow" =>
        LET ledSuit == probe.trick[1].card.suitCode
            refused == /\ probe.card.suitCode # ledSuit
                       /\ \E c \in probe.hand : c.suitCode = ledSuit
        IN  /\ verdict.accepted = ~refused
            /\ verdict.acceptedGame = ~refused

\* A hand with no card of the led suit has played a Spade on it
C8_Witness ==
    /\ verdict.kind = "follow"
    /\ verdict.accepted /\ verdict.acceptedGame
    /\ probe.card.suitCode = "S"
    /\ probe.trick[1].card.suitCode = "H"
    /\ Cardinality(probe.hand) > 1

\* The key of the claim for a play of a trick led in ledSuit: <<isSpade, rank
\* of a Spade or of a card of the led suit, -1 for any other card>>
TrickKey(entry, ledSuit) ==
    <<IF entry.card.suitCode = "S" THEN 1 ELSE 0,
      IF entry.card.suitCode = "S" \/ entry.card.suitCode = ledSuit
      THEN CardValue(entry.card) ELSE -1>>

KeyBelow(a, b) == a[1] < b[1] \/ (a[1] = b[1] /\ a[2] < b[2])

\* C10: for every complete trick of four distinct cards, the winner returned
\* by GameManager.getWinnerOfTrick and the one returned by
\* Game.determineTrickWinner is the play with the maximum key: the highest
\* Spade if a Spade was played, otherwise the highest card of the led suit,
\* and never a card that is neither.
C10_WinnerHasMaximumKey ==
    verdict.kind = "winner" =>
        LET ledSuit == probe.trick[1].card.suitCode
            best == CHOOSE k \in 1..Len(probe.trick) :
                        \A j \in 1..Len(probe.trick) :
                            j # k => KeyBelow(TrickKey(probe.trick[j], ledSuit),
                                              TrickKey(probe.trick[k], ledSuit))
        IN  /\ Len(probe.trick) = NumPlayers
            /\ \E k \in 1..Len(probe.trick) :
                   \A j \in 1..Len(probe.trick) :
                       j # k => KeyBelow(TrickKey(probe.trick[j], ledSuit),
                                         TrickKey(probe.trick[k], ledSuit))
            /\ verdict.winner = probe.trick[best]
            /\ verdict.winnerGame = probe.trick[best]
            /\ verdict.winner.card.suitCode \in {"S", ledSuit}

\* The last play, a Spade lower than the card led, wins a trick led in Hearts
\* in which a higher card of a third suit was played
C10_Witness ==
    /\ verdict.kind = "winner"
    /\ verdict.winner = probe.trick[4]
    /\ verdict.winnerGame = probe.trick[4]
    /\ probe.trick[4].card.suitCode = "S"
    /\ probe.trick[1].card.suitCode = "H"
    /\ probe.trick[2].card.suitCode = "D"
    /\ CardValue(probe.trick[1].card) > CardValue(probe.trick[4].card)
    /\ CardValue(probe.trick[2].card) > CardValue(probe.trick[4].card)

----------------------------------------------------------------------------
(* GameManager.js: round scoring and round management *)

TargetScore == 500
BagLimit == 10
BagPenalty == 100
NilBonus == 100
ContractPoints == 10

\* undefined, and the arithmetic of endRound on numbers and undefined: a sum
\* or a difference with undefined or NaN is NaN, a comparison with NaN is false
JSUndefined == [k |-> "undefined", v |-> 0]
JSAdd(x, y) == IF x.k = "int" /\ y.k = "int" THEN JSInt(x.v + y.v) ELSE JSNaN
JSSub(x, y) == IF x.k = "int" /\ y.k = "int" THEN JSInt(x.v - y.v) ELSE JSNaN
JSGeNum(x, y) == x.k = "int" /\ y.k = "int" /\ x.v >= y.v

\* p.tricksWon: the value of the property if the player has it, else undefined
\* (Player defines tricksTaken and no tricksWon)
TricksWonOf(p) ==
    IF "tricksWon" \in DOMAIN p THEN JSInt(p.tricksWon) ELSE JSUndefined

\* teams[teamId].players: the seats of the team, in the order of this.players
RECURSIVE TeamSeatsFrom(_, _, _)
TeamSeatsFrom(ps, teamId, i) ==
    IF i > Len(ps) THEN <<>>
    ELSE (IF ps[i].team = teamId THEN <<i>> ELSE <<>>) \o TeamSeatsFrom(ps, teamId, i + 1)

TeamSeats(ps, teamId) == TeamSeatsFrom(ps, teamId, 1)

\* The keys of teams, in the order of for...in
TeamIds == <<1, 2>>

\* teams[teamId].totalBid (the bids are integers in SpecRound)
RECURSIVE TotalBid(_, _)
TotalBid(ps, seats) ==
    IF seats = <<>> THEN 0 ELSE ps[Head(seats)].bid.v + TotalBid(ps, Tail(seats))

\* teams[teamId].totalTricks, from 0
RECURSIVE TotalTricks(_, _)
TotalTricks(ps, seats) ==
    IF seats = <<>> THEN JSInt(0)
    ELSE JSAdd(TotalTricks(ps, SubSeq(seats, 1, Len(seats) - 1)),
               TricksWonOf(ps[seats[Len(seats)]]))

\* totalNilTricksWon: the tricksWon of the Nil players of the team, from 0
RECURSIVE TotalNilTricksWon(_, _)
TotalNilTricksWon(ps, seats) ==
    IF seats = <<>> THEN JSInt(0)
    ELSE LET rest == TotalNilTricksWon(ps, SubSeq(seats, 1, Len(seats) - 1))
             p == ps[seats[Len(seats)]]
         IN  IF p.isNil THEN JSAdd(rest, TricksWonOf(p)) ELSE rest

\* The scoring of a Nil player: tricksWon === 0 earns 100, else costs 100
NilScore(p) ==
    IF ~p.isNil THEN p
    ELSE [p EXCEPT !.score = IF JSIsZero(TricksWonOf(p)) THEN @ + NilBonus
                                                          ELSE @ - NilBonus]

\* endRound, what the scoring of a team does to its players, seat by seat
\* from the k-th of seats: the Nil player is scored, the score change of the
\* contract goes to every player of the team, the bags to its first
RECURSIVE CreditSeats(_, _, _, _, _)
CreditSeats(ps, seats, k, teamScoreChange, teamBags) ==
    IF k > Len(seats) THEN ps
    ELSE CreditSeats(
             [ps EXCEPT ![seats[k]] =
                 [NilScore(@) EXCEPT !.score = @ + teamScoreChange,
                                     !.bags = IF k = 1 THEN @ + teamBags ELSE @]],
             seats, k + 1, teamScoreChange, teamBags)

\* endRound, the body of the loop over the teams: the Nil players, then the
\* contract of the team
ScoreTeam(ps, teamId) ==
    LET seats == TeamSeats(ps, teamId)
        standardBid == TotalBid(ps, seats)
        standardTricks == JSSub(TotalTricks(ps, seats), TotalNilTricksWon(ps, seats))
        made == JSGeNum(standardTricks, JSInt(standardBid))
        teamScoreChange == IF made THEN standardBid * ContractPoints
                                   ELSE 0 - (standardBid * ContractPoints)
        teamBags == IF made THEN standardTricks.v - standardBid ELSE 0
    IN  CreditSeats(ps, seats, 1, teamScoreChange, teamBags)

\* endRound, the loop over the teams
RECURSIVE ScoreTeams(_, _)
ScoreTeams(ps, k) ==
    IF k > Len(TeamIds) THEN ps ELSE ScoreTeams(ScoreTeam(ps, TeamIds[k]), k + 1)

\* The bags of a team: the sum of the bags of its players
RECURSIVE BagsOfSeats(_, _)
BagsOfSeats(ps, seats) ==
    IF seats = <<>> THEN 0 ELSE ps[Head(seats)].bags + BagsOfSeats(ps, Tail(seats))

TeamBags(ps, teamId) == BagsOfSeats(ps, TeamSeats(ps, teamId))

\* calculateAndApplyBags, what the penalty does to the players of a team,
\* seat by seat from the k-th of seats: the penalty comes off every score,
\* the bags are reset and what remains of them is set on the first player
RECURSIVE PenalizeSeats(_, _, _, _, _)
PenalizeSeats(ps, seats, k, bagPenalty, remainingBags) ==
    IF k > Len(seats) THEN ps
    ELSE PenalizeSeats(
             [ps EXCEPT ![seats[k]] =
                 [@ EXCEPT !.score = @ - bagPenalty,
                           !.bags = IF k = 1 THEN remainingBags ELSE 0]],
             seats, k + 1, bagPenalty, remainingBags)

\* calculateAndApplyBags with a penalty of 100 and 10 bags taken off, once
ApplyBagsOnce(ps, teamId) ==
    LET seats == TeamSeats(ps, teamId)
        totalBags == TeamBags(ps, teamId)
    IN  IF totalBags >= BagLimit
        THEN PenalizeSeats(ps, seats, 1, BagPenalty, totalBags - BagLimit)
        ELSE ps

\* calculateAndApplyBags, the body of the loop over the teams
ApplyBags(ps, teamId) ==
    LET seats == TeamSeats(ps, teamId)
        totalBags == TeamBags(ps, teamId)
        bagPenalty == (totalBags \div BagLimit) * BagPenalty
        remainingBags == totalBags % BagLimit
    IN  IF totalBags >= BagLimit
        THEN PenalizeSeats(ps, seats, 1, bagPenalty, remainingBags)
        ELSE ps

\* calculateAndApplyBags()
RECURSIVE CalculateAndApplyBags(_, _)
CalculateAndApplyBags(ps, k) ==
    IF k > Len(TeamIds) THEN ps
    ELSE CalculateAndApplyBags(ApplyBags(ps, TeamIds[k]), k + 1)

\* The sum of the scores of a team
RECURSIVE ScoreOfSeats(_, _)
ScoreOfSeats(ps, seats) ==
    IF seats = <<>> THEN 0 ELSE ps[Head(seats)].score + ScoreOfSeats(ps, Tail(seats))

\* announceTeamScores(): the sum of the scores of the team over 2 (the sums
\* are even in SpecRound)
AnnounceTeamScores(ps) ==
    [team1Score |-> ScoreOfSeats(ps, TeamSeats(ps, 1)) \div 2,
     team2Score |-> ScoreOfSeats(ps, TeamSeats(ps, 2)) \div 2]

\* checkGameEnd(scores)
CheckGameEnd(scores) ==
    scores.team1Score >= TargetScore \/ scores.team2Score >= TargetScore

\* startNextRound(): the turn moves one seat on, then reset, shuffle,
\* dealCards, startBidding
StartNextRound(ps, seed) ==
    LET dealt == DealCards(ps, DeckShuffle(DeckReset(NumRanks), seed))
    IN  /\ currentPlayerIndex' = (currentPlayerIndex + 1) % Len(ps)
        /\ players' = dealt.players
        /\ deck' = dealt.deck
        /\ state' = "BIDDING"
        /\ isBiddingActive' = TRUE
        /\ bidsTaken' = 0
        /\ firstBidder' = currentPlayerIndex'
        /\ UNCHANGED <<isGameActive, currentTrick, trickSuit, spadesBroken>>

\* endRound(), as endTrick calls it when the hand of the winner is empty
EndRound(seed) ==
    /\ isTrickActive
    /\ Len(players) = NumPlayers
    /\ \A i \in 1..Len(players) : players[i].hand = {}
    /\ LET contracts == ScoreTeams(players, 1)
           scored == CalculateAndApplyBags(contracts, 1)
           penalty == \E k \in 1..Len(TeamIds) : TeamBags(contracts, TeamIds[k]) >= BagLimit
       IN  /\ isTrickActive' = FALSE
           /\ Ended("endRound", "accepted", IF penalty THEN "bagPenalty" ELSE "none", FALSE)
           /\ IF CheckGameEnd(AnnounceTeamScores(scored))
              THEN /\ players' = scored
                   /\ gameOver' = TRUE
                   /\ UNCHANGED <<deck, isGameActive, state, currentPlayerIndex,
                                  bidsTaken, isBiddingActive, currentTrick, trickSuit,
                                  spadesBroken, firstBidder>>
              ELSE /\ StartNextRound(scored, seed)
                   /\ UNCHANGED gameOver
    /\ UNCHANGED <<ruleVars, roundTricks, engineVars, failedDm>>

\* game.startGame() called on its own
StartGameCall(seed) ==
    /\ IF Len(players) # NumPlayers
       THEN Reject("startGame", "notFourPlayers")
       ELSE StartGame(players, seed) /\ Accept("startGame")
    /\ UNCHANGED <<ruleVars, roundVars, engineVars, failedDm>>

----------------------------------------------------------------------------
(* The end of a round of GameManager *)

\* What a team holds when the round ends: the score of each of its players
\* and the bags on its first player
TeamPriors == {<<0, 0>>, <<0, 25>>, <<800, 12>>}

\* The bids the seats hold when the round ends (the source admits 0 to 13)
RoundBids == {0, 1}

\* The tricks of the last trick of the round, led by seat leader (0-based)
LastTrick(ps, leader) ==
    [k \in 1..Len(ps) |->
        [playerId |-> ps[((leader + k - 1) % Len(ps)) + 1].discordId,
         card |-> DeckReset(NumRanks)[k],
         seat |-> (leader + k - 1) % Len(ps)]]

\* The four players at the end of a round: seated by addPlayer, the bids set
\* by setBid, the hands played out
RoundEndPlayer(seat, bid, prior, first) ==
    [SetBid(NewPlayer(UserSeq[seat], IF (seat - 1) % 2 = 0 THEN 2 ELSE 1), JSInt(bid))
        EXCEPT !.score = prior[1], !.bags = IF first THEN prior[2] ELSE 0]

\* The state in which endTrick calls endRound: the cards of the round are
\* played, the last trick is on the table; the bids, the scores and bags so
\* far and the tricks each seat took are drawn; the seat before the last has
\* played the last card
InitRound ==
    /\ \E b1 \in RoundBids : \E b2 \in RoundBids :
       \E b3 \in RoundBids : \E b4 \in RoundBids :
       \E prior1 \in TeamPriors : \E prior2 \in TeamPriors :
           players = <<RoundEndPlayer(1, b1, prior2, TRUE),
                       RoundEndPlayer(2, b2, prior1, TRUE),
                       RoundEndPlayer(3, b3, prior2, FALSE),
                       RoundEndPlayer(4, b4, prior1, FALSE)>>
    /\ \E t1 \in 0..NumRanks : \E t2 \in 0..(NumRanks - t1) :
       \E t3 \in 0..(NumRanks - t1 - t2) :
           roundTricks = <<t1, t2, t3, NumRanks - t1 - t2 - t3>>
    /\ currentPlayerIndex = NumPlayers - 2
    /\ currentTrick = LastTrick(players, (currentPlayerIndex + 1) % NumPlayers)
    /\ trickSuit = currentTrick[1].card.suitCode
    /\ deck = <<>>
    /\ isGameActive = TRUE
    /\ state = "BIDDING"
    /\ bidsTaken = NumPlayers
    /\ isBiddingActive = FALSE
    /\ isTrickActive = TRUE
    /\ spadesBroken = TRUE
    /\ firstBidder = 0
    /\ lastOp = [op |-> "processCardPlay", outcome |-> "accepted", why |-> "none",
                 threw |-> FALSE]
    /\ probe = NoProbe
    /\ verdict = NoVerdict
    /\ EngineIdle
    /\ gameOver = FALSE

\* The text processCardPlay is called with once the game has ended: the
\* example of its prompt, 'AS'
EndRawCards == {ShortDisplay(Card("A", "S"))}

\* The game has ended and has not been started again
AfterGameEnd == gameOver /\ ~isBiddingActive

\* The end of the round, and the calls made on a game that has ended
NextRound ==
    \/ \E seed \in Seeds : EndRound(seed)
    \/ AfterGameEnd /\ \E id \in Callers, raw \in PlayRawBids : ProcessBid(id, raw)
    \/ AfterGameEnd /\ \E id \in Callers, amount \in PlayBidAmounts : TryPlaceBid(id, amount)
    \/ AfterGameEnd /\ \E id \in Callers, raw \in EndRawCards : ProcessCardPlay(id, raw)
    \/ AfterGameEnd /\ \E id \in JoinIds : AddPlayerCall(id)
    \/ AfterGameEnd /\ \E seed \in Seeds : StartGameCall(seed)

SpecRound == InitRound /\ [][NextRound]_vars

----------------------------------------------------------------------------
(* Round scoring (SpecRound) *)

\* A step that scores the round
EndRoundStep == lastOp'.op = "endRound"

\* The score of a team as announceTeamScores reports it
TeamScore(ps, teamId) ==
    IF teamId = 1 THEN AnnounceTeamScores(ps).team1Score
                  ELSE AnnounceTeamScores(ps).team2Score

\* What a team holds after the round when its contract changes its score by
\* delta and earns it gain bags: the score and the bags it had plus these,
\* and then 100 points and 10 bags off for every full 10 bags
Settled(teamId, delta, gain) ==
    LET bags == TeamBags(players, teamId) + gain
    IN  [score |-> TeamScore(players, teamId) + delta - 100 * (bags \div 10),
         bags |-> bags % 10]

\* What the team holds once the step is taken
Held(teamId) ==
    [score |-> TeamScore(players', teamId), bags |-> TeamBags(players', teamId)]

\* The score change and the bags of a bid of b made or missed with t tricks
ContractDelta(b, t) == IF t >= b THEN 10 * b ELSE 0 - 10 * b
ContractGain(b, t) == IF t >= b THEN t - b ELSE 0

\* C15: at round end, a partnership in which neither player bid Nil, with
\* combined bid B and combined tricks T, has its score changed by +10*B and
\* gains T - B bags if T >= B, and has its score changed by -10*B and gains
\* no bag otherwise (the bag penalty then applies to the bags so reached).
C15_StandardContract ==
    [][EndRoundStep =>
          \A k \in 1..Len(TeamIds) :
              LET P == TeamSeats(players, TeamIds[k])[1]
                  Q == TeamSeats(players, TeamIds[k])[2]
                  B == players[P].bid.v + players[Q].bid.v
                  T == roundTricks[P] + roundTricks[Q]
              IN  (players[P].bid.v # 0 /\ players[Q].bid.v # 0) =>
                      Held(TeamIds[k]) =
                          Settled(TeamIds[k], ContractDelta(B, T), ContractGain(B, T))
      ]_vars

\* C16: at round end, a partnership in which both players bid Nil has its
\* announced score changed by +200 if both took no trick and by -200 if
\* either took one, and gains no bag.
C16_DoubleNil ==
    [][EndRoundStep =>
          \A k \in 1..Len(TeamIds) :
              LET P == TeamSeats(players, TeamIds[k])[1]
                  Q == TeamSeats(players, TeamIds[k])[2]
              IN  (players[P].bid.v = 0 /\ players[Q].bid.v = 0) =>
                      Held(TeamIds[k]) =
                          Settled(TeamIds[k],
                                  IF roundTricks[P] = 0 /\ roundTricks[Q] = 0
                                  THEN 200 ELSE 0 - 200,
                                  0)
      ]_vars

\* C17: at round end, a partnership in which exactly one player N bid Nil and
\* the partner M bid b >= 1 has its announced score changed by +100 if N took
\* no trick, else -100, plus +10*b if M took b tricks or more, else -10*b;
\* it gains the tricks of N (when the Nil failed) and the overtricks of M as
\* bags.
C17_SingleNil ==
    [][EndRoundStep =>
          \A k \in 1..Len(TeamIds) :
              \A N, M \in {TeamSeats(players, TeamIds[k])[1],
                           TeamSeats(players, TeamIds[k])[2]} :
                  (N # M /\ players[N].bid.v = 0 /\ players[M].bid.v # 0) =>
                      Held(TeamIds[k]) =
                          Settled(TeamIds[k],
                                  (IF roundTricks[N] = 0 THEN 100 ELSE 0 - 100)
                                      + ContractDelta(players[M].bid.v, roundTricks[M]),
                                  roundTricks[N]
                                      + ContractGain(players[M].bid.v, roundTricks[M]))
      ]_vars

\* C18: after the scoring of a round, a partnership whose bags, with the bags
\* the round has credited, have reached 10 or more has lost 100 points for
\* every full 10 bags and 10 bags for every such penalty: the bags of every
\* partnership are in 0..9 when the next round starts.
C18_BagPenalty ==
    [][EndRoundStep =>
          \A k \in 1..Len(TeamIds) :
              LET credited == ScoreTeams(players, 1)
                  reached == TeamBags(credited, TeamIds[k])
              IN  /\ TeamBags(players', TeamIds[k]) = reached - 10 * (reached \div 10)
                  /\ TeamScore(players', TeamIds[k]) =
                         TeamScore(credited, TeamIds[k]) - 100 * (reached \div 10)
                  /\ TeamBags(players', TeamIds[k]) \in 0..9
      ]_vars

\* A round was scored with a bag penalty announced, and the next round has
\* started with the bags within 0..9 and the penalty taken off the score
C18_Witness ==
    /\ lastOp.op = "endRound"
    /\ lastOp.why = "bagPenalty"
    /\ isBiddingActive
    /\ \A k \in 1..Len(TeamIds) : TeamBags(players, TeamIds[k]) \in 0..9
    /\ \E k \in 1..Len(TeamIds) : TeamScore(players, TeamIds[k]) <= 0 - 200

\* C19: when the scoring of a round finds a partnership at or above the
\* target, state is GAME_END and no new round is started: no deal, no
\* bidding.
C19_GameEndState ==
    (lastOp.op = "endRound" /\ gameOver) =>
        /\ state = "GAME_END"
        /\ ~isBiddingActive
        /\ deck = <<>>
        /\ \A i \in 1..Len(players) : players[i].hand = {}

\* C20: once the game has ended, no call changes a hand, a bid, a trick
\* count, a score, a bag count, the turn or the phase.
C20_EndedGameIsTerminal ==
    [][gameOver =>
          UNCHANGED <<players, deck, currentPlayerIndex, state, isGameActive,
                      isBiddingActive, isTrickActive, bidsTaken, currentTrick,
                      trickSuit, spadesBroken>>
      ]_vars

----------------------------------------------------------------------------
(* From one round to the next (SpecRound) *)

\* A step that scores the round and starts the next one
NextRoundStep == EndRoundStep /\ ~gameOver'

\* C22: when a round ends without the target being reached, the seat that
\* bids first in the next round is the seat one to the left of the seat that
\* bid first in the round that ends, (f + 1) mod 4, whoever played or won the
\* last trick.
C22_DealerRotatesByOne ==
    [][NextRoundStep =>
          /\ firstBidder' = (firstBidder + 1) % NumPlayers
          /\ currentPlayerIndex' = firstBidder'
      ]_vars

\* C26: spadesBroken is false when the bidding of a round begins, whatever
\* the round before has left, and no other step takes it from true back to
\* false.
C26_SpadesUnbrokenAtRoundStart ==
    [][/\ DealStep => ~spadesBroken'
       /\ (spadesBroken /\ ~DealStep) => spadesBroken'
      ]_vars

\* C28: when a round after the first starts, every player holds a fresh hand
\* of the new deal only, the bid is unset, the tricks count of the round is 0
\* (tricksTaken, and the count that trick play and round scoring read,
\* tricksWon), and the score and the bags are those the scoring of the round
\* before has left.
C28_RoundStateReset ==
    [][NextRoundStep =>
          LET scored == CalculateAndApplyBags(ScoreTeams(players, 1), 1)
          IN  \A i \in 1..Len(players) :
                  /\ Cardinality(players'[i].hand) = NumRanks
                  /\ players'[i].bid = JSNull
                  /\ ~players'[i].isNil
                  /\ players'[i].tricksTaken = 0
                  /\ TricksWonOf(players'[i]) = JSInt(0)
                  /\ players'[i].score = scored[i].score
                  /\ players'[i].bags = scored[i].bags
      ]_vars

----------------------------------------------------------------------------
(* The lobby (Spec) *)

\* C23: the game never holds more than 4 players. addPlayer succeeds while
\* fewer than 4 players are present (and so does a join in the lobby), adding
\* one player behind those seated; an addPlayer or a join with 4 players
\* present is rejected and leaves the players unchanged; cards are dealt and
\* bidding starts only with exactly 4 players present.
C23_AtMostFourPlayers ==
    [][/\ Len(players') <= NumPlayers
       /\ lastOp'.op \in {"addPlayer", "join"} =>
              IF Len(players) >= NumPlayers
              THEN lastOp'.outcome = "rejected" /\ players' = players
              ELSE /\ lastOp'.outcome = "accepted"
                   /\ Len(players') = Len(players) + 1
                   /\ \A i \in 1..Len(players) :
                          players'[i].discordId = players[i].discordId
       /\ (DealStep \/ isBiddingActive' \/ HandCardsFrom(players', 1) > 0) =>
              Len(players') = NumPlayers
      ]_vars

\* With the four players seated and the bidding open, a fifth user has called
\* addPlayer and was turned away
C23_Witness ==
    /\ Len(players) = NumPlayers
    /\ isBiddingActive
    /\ lastOp = [op |-> "addPlayer", outcome |-> "rejected", why |-> "lobbyFull",
                 threw |-> FALSE]

----------------------------------------------------------------------------
(* Card plays: rejections, resubmissions (Spec), Spades broken (SpecTricks) *)

\* The reasons for which processCardPlay turns a play away
PlayRejections ==
    {"trickInactive", "unknownPlayer", "notYourTurn", "noSuchCard",
     "spadesNotBroken", "mustFollowSuit", "internalError"}

\* C24: a card play that processCardPlay rejects (trick play not active,
\* unknown player, not the player's turn, card not in hand or unparseable,
\* Spade lead before Spades are broken, failure to follow suit) leaves the
\* game as it was: every hand, the current trick, the led suit, spadesBroken,
\* the turn index, tricks counts, scores and bags, and the rest of the state.
C24_RejectedPlayChangesNothing ==
    [][(lastOp'.op = "processCardPlay" /\ lastOp'.outcome = "rejected") =>
          /\ lastOp'.why \in PlayRejections
          /\ UNCHANGED gameVars
      ]_vars

\* With a trick on the table that has cards to come, the player whose turn it
\* is has played a card off the led suit while holding the led suit, and was
\* turned away
C24_Witness ==
    /\ Len(currentTrick) \in 1..(NumPlayers - 1)
    /\ lastOp.op = "processCardPlay"
    /\ lastOp.outcome = "rejected"
    /\ lastOp.why = "mustFollowSuit"
    /\ \E c \in players[currentPlayerIndex + 1].hand : c.suitCode = trickSuit
    /\ \E c \in players[currentPlayerIndex + 1].hand : c.suitCode # trickSuit

SuitedDeck(r) ==
    LET cards == DeckReset(NumRanks)
        n == Len(cards)
        byRank == [k \in 1..n |->
                      cards[((k - 1) % Len(SuitCodes)) * NumRanks
                            + ((k - 1) \div Len(SuitCodes)) + 1]]
    IN  [k \in 1..n |-> byRank[((k - 1 + r) % n) + 1]]

\* The cut explored: the one that deals the Spades to the first leader
SuitedCuts == {3}

\* The orders of the deck the rounds of SpecTricks are dealt from: the
\* shuffles of Spec and the suited decks
TrickDecks ==
    {DeckShuffle(DeckReset(NumRanks), seed) : seed \in Seeds}
    \cup {SuitedDeck(r) : r \in SuitedCuts}

\* The state startTricks() leaves in the first round: four players seated by
\* addPlayer, the deck dealt by dealCards, the four bids (of 3) taken from the
\* first seat on, the turn with the last bidder
InitTricks ==
    /\ \E cards \in TrickDecks :
           LET seated == AddPlayer(AddPlayer(AddPlayer(AddPlayer(<<>>, UserSeq[1]),
                             UserSeq[2]), UserSeq[3]), UserSeq[4])
               dealt == DealCards(seated, cards)
           IN  /\ players = [i \in 1..NumPlayers |-> SetBid(dealt.players[i], JSInt(3))]
               /\ deck = dealt.deck
    /\ isGameActive = TRUE
    /\ state = "BIDDING"
    /\ currentPlayerIndex = NumPlayers - 1
    /\ bidsTaken = NumPlayers
    /\ isBiddingActive = FALSE
    /\ isTrickActive = TRUE
    /\ currentTrick = <<>>
    /\ trickSuit = "null"
    /\ spadesBroken = FALSE
    /\ firstBidder = 0
    /\ lastOp = [op |-> "tryPlaceBid", outcome |-> "accepted", why |-> "none",
                 threw |-> FALSE]
    /\ probe = NoProbe
    /\ verdict = NoVerdict
    /\ EngineIdle
    /\ roundTricks = <<>>
    /\ gameOver = FALSE

NextTricks == \E id \in Callers, raw \in RawCards : ProcessCardPlay(id, raw)

\* Trick play of the first round of GameManager, from the deals of TrickDecks
SpecTricks == InitTricks /\ [][NextTricks]_vars

\* The card an accepted play has put on the table
PlayedCard == currentTrick'[Len(currentTrick')].card

\* The play is a Spade on a trick whose led suit is not Spades
SpadeOffSuit == PlayedCard.suitCode = "S" /\ trickSuit' # "S"

----------------------------------------------------------------------------
(* Game.js: the scores of a round *)

\* Game.js: the bid that stands for Nil, and the score that ends the game
GameNilBid == 14
MaxScore == 500
LowestScore == 0 - 200

\* calculateRoundScores, scoreTeam(teamIndex): the outcome of the bids of the
\* partnership (p1, p2 its players): the change of its score and its bags
\* before the penalty
ScoreDeltaAndBags(p1, p2) ==
    LET startBags == p1.bags + p2.bags
        p1BidIsNil == p1.bid = GameNilBid
        p2BidIsNil == p2.bid = GameNilBid
        totalBid == (IF p1BidIsNil THEN 0 ELSE p1.bid) + (IF p2BidIsNil THEN 0 ELSE p2.bid)
        tricksTaken == p1.tricks + p2.tricks
    IN  IF p1BidIsNil /\ p2BidIsNil
        THEN [delta |-> IF p1.tricks = 0 /\ p2.tricks = 0 THEN 200 ELSE 0 - 200,
              bags |-> startBags]
        ELSE IF p1BidIsNil \/ p2BidIsNil
        THEN LET nilPlayer == IF p1BidIsNil THEN p1 ELSE p2
                 partner == IF p1BidIsNil THEN p2 ELSE p1
                 nilDelta == IF nilPlayer.tricks = 0 THEN 100 ELSE 0 - 100
                 nilBags == IF nilPlayer.tricks = 0 THEN 0 ELSE nilPlayer.tricks
             IN  IF partner.tricks >= partner.bid
                 THEN [delta |-> nilDelta + partner.bid * 10,
                       bags |-> startBags + nilBags + (partner.tricks - partner.bid)]
                 ELSE [delta |-> nilDelta - partner.bid * 10,
                       bags |-> startBags + nilBags]
        ELSE IF tricksTaken >= totalBid
             THEN [delta |-> totalBid * 10, bags |-> startBags + (tricksTaken - totalBid)]
             ELSE [delta |-> 0 - totalBid * 10, bags |-> startBags]

\* scoreTeam(teamIndex), teamIndex 0 or 1: the bags gained are split between
\* the two players, ten bags or more cost 100 points and ten bags, once, and
\* the score of the team takes the change
GameScoreTeam(g, teamIndex) ==
    LET i1 == teamIndex + 1
        i2 == teamIndex + 3
        p1 == g.players[i1]
        p2 == g.players[i2]
        outcome == ScoreDeltaAndBags(p1, p2)
        bagsGained == outcome.bags - (p1.bags + p2.bags)
        p1Bags == p1.bags + (bagsGained \div 2)
        p2Bags == p2.bags + ((bagsGained + 1) \div 2)
        totalBags == p1Bags + p2Bags
        penalty == totalBags >= 10
        left == totalBags - 10
    IN  [g EXCEPT
           !.players[i1].bags = IF penalty THEN left \div 2 ELSE p1Bags,
           !.players[i2].bags = IF penalty THEN (left + 1) \div 2 ELSE p2Bags,
           !.teamScores[teamIndex + 1] =
               @ + outcome.delta - (IF penalty THEN 100 ELSE 0)]

\* calculateRoundScores(): team 1 then team 2 scored, the Game after it
CalculateRoundScores(g) == GameScoreTeam(GameScoreTeam(g, 0), 1)

\* calculateRoundScores(): the isGameOver it returns, from the scores it left
IsGameOver(teamScores) ==
    \/ teamScores[1] >= MaxScore
    \/ teamScores[2] >= MaxScore
    \/ teamScores[1] <= LowestScore
    \/ teamScores[2] <= LowestScore

\* Game.startRound(): the deal (onto the hands as they are), the players'
\* tricks and bids reset, the first to bid left of the dealer
StartRound(g, seed) ==
    LET dealt == GameDealCards(g.players, seed).players
    IN  [g EXCEPT
           !.players = [i \in 1..Len(dealt) |->
                           [dealt[i] EXCEPT !.tricks = 0, !.bid = 0]],
           !.bidsCollected = 0,
           !.spadesBroken = FALSE,
           !.trick = <<>>,
           !.currentPlayerIndex = (g.dealerIndex + 1) % Len(g.players),
           !.state = "BIDDING"]

----------------------------------------------------------------------------
(* index.js: the play command, on a Game in its playing phase *)

\* Play handlers that can be in flight together
NumHandlers == 2

\* A handler that is not running
IdleHandler ==
    [at |-> "idle", user |-> "none", card |-> NoCard, winner |-> 0,
     isGameOver |-> FALSE, reply |-> "none"]

\* The cards a play command can name, and a text that names no card
PlayInputs == {GameCreateDeck(NumRanks)[k] : k \in 1..Len(GameCreateDeck(NumRanks))}
                  \cup {NoCard}

\* game.players.find / findIndex by the id of the user: the seat (0-based),
\* -1 when there is none
SeatOfUser(g, user) ==
    IF \E i \in 1..Len(g.players) : g.players[i].id = user
    THEN (CHOOSE i \in 1..Len(g.players) : g.players[i].id = user) - 1
    ELSE 0 - 1

\* player.getHandSuits(): the suits of the cards in the hand
GetHandSuits(hand) == {c.suitCode : c \in hand}

\* The validation of the play command itself (lines 567-590): true when the
\* play is answered 'Invalid play'
PlayValidationError(g, hand, card) ==
    IF Len(g.trick) > 0
    THEN /\ card.suitCode # g.trick[1].card.suitCode
         /\ g.trick[1].card.suitCode \in GetHandSuits(hand)
    ELSE /\ card.suitCode = "S"
         /\ ~g.spadesBroken
         /\ GetHandSuits(hand) \ {"S"} # {}

\* What the play command answers before it changes anything: "played" when
\* it goes on to put the card on the trick
PlayAnswer(g, user, card) ==
    LET seat == SeatOfUser(g, user)
    IN  IF ~g.live \/ g.state # "PLAYING" THEN "notPlaying"
        ELSE IF seat < 0 THEN "notAPlayer"
        ELSE IF g.players[seat + 1].id # g.players[g.currentPlayerIndex + 1].id
             THEN "notYourTurn"
        ELSE IF \/ card \notin g.players[seat + 1].hand
                \/ GetCardFromInputRefused(g.players[seat + 1].hand, card,
                                           g.trick, g.spadesBroken)
             THEN "invalidCard"
        ELSE IF PlayValidationError(g, g.players[seat + 1].hand, card)
             THEN "invalidPlay"
        ELSE "played"

\* The handler h returns, the Game being g
Finished(h, g) ==
    /\ game' = g
    /\ handlers' = [handlers EXCEPT ![h] = [IdleHandler EXCEPT !.reply = "played"]]

\* game.players.reduce((sum, p) => sum + p.tricks, 0), from the i-th player on
RECURSIVE SumTricks(_, _)
SumTricks(ps, i) == IF i > Len(ps) THEN 0 ELSE ps[i].tricks + SumTricks(ps, i + 1)

\* The play command from its start to its first await (lines 531-605): the
\* checks, then the card is on the trick and out of the hand
PlayCommand(h, user, card) ==
    /\ handlers[h].at = "idle"
    /\ LET answer == PlayAnswer(game, user, card)
           seat == SeatOfUser(game, user)
       IN  IF answer # "played"
           THEN /\ handlers' = [handlers EXCEPT
                                   ![h] = [IdleHandler EXCEPT !.reply = answer]]
                /\ UNCHANGED game
           ELSE /\ game' = [game EXCEPT
                              !.trick = Append(@, [playerId |-> user, card |-> card,
                                                   seat |-> seat]),
                              !.players[seat + 1].hand = @ \ {card}]
                /\ handlers' = [handlers EXCEPT
                                   ![h] = [IdleHandler EXCEPT !.at = "replied",
                                                              !.user = user,
                                                              !.card = card,
                                                              !.reply = answer]]
    /\ UNCHANGED <<gameVars, lastOp, ruleVars, roundVars, failedDm>>

\* Lines 617-689, from 'Check if trick is complete' to the next await: the
\* fourth card ends the trick and its winner takes it, any other card passes
\* the turn on
TrickCheck(h, g) ==
    IF Len(g.trick) = NumPlayers
    THEN LET winningPlay == DetermineTrickWinner(g.trick)
         IN  /\ game' = [g EXCEPT
                           !.spadesBroken = BrokenAfterWinner(g.trick, g.spadesBroken),
                           !.players[winningPlay.seat + 1].tricks = @ + 1]
             /\ handlers' = [handlers EXCEPT
                                ![h] = [@ EXCEPT !.at = "won",
                                                 !.winner = winningPlay.seat]]
    ELSE Finished(h, [g EXCEPT !.currentPlayerIndex = (@ + 1) % Len(g.players)])

\* The handler resumes after its reply (lines 610-613, then 617 on): a Spade
\* played while Spades are unbroken breaks them and is announced
AfterReply(h) ==
    /\ handlers[h].at = "replied"
    /\ IF handlers[h].card.suitCode = "S" /\ ~game.spadesBroken
       THEN /\ game' = [game EXCEPT !.spadesBroken = TRUE]
            /\ handlers' = [handlers EXCEPT ![h] = [@ EXCEPT !.at = "broke"]]
       ELSE TrickCheck(h, game)
    /\ UNCHANGED <<gameVars, lastOp, ruleVars, roundVars, failedDm>>

\* The handler resumes after 'SPADES ARE BROKEN' is sent
AfterBreak(h) ==
    /\ handlers[h].at = "broke"
    /\ TrickCheck(h, game)
    /\ UNCHANGED <<gameVars, lastOp, ruleVars, roundVars, failedDm>>

\* The handler resumes after 'TRICK WON' is sent (lines 635-658): the trick is
\* reset, the winner leads, and when every trick of the round is taken (the
\* source's 13) the round is scored
AfterTrickWon(h) ==
    /\ handlers[h].at = "won"
    /\ LET cleared == [game EXCEPT !.trick = <<>>,
                                   !.currentPlayerIndex = handlers[h].winner]
           totalTricks == SumTricks(cleared.players, 1)
           scored == CalculateRoundScores(cleared)
       IN  IF totalTricks = NumRanks
           THEN /\ game' = scored
                /\ handlers' = [handlers EXCEPT
                                   ![h] = [@ EXCEPT
                                             !.at = "scored",
                                             !.isGameOver = IsGameOver(scored.teamScores)]]
           ELSE Finished(h, cleared)
    /\ UNCHANGED <<gameVars, lastOp, ruleVars, roundVars, failedDm>>

\* The handler resumes after 'ROUND ENDED' is sent (lines 660-677): the game
\* is over, or the next round starts with the next dealer
AfterRoundScored(h, seed) ==
    /\ handlers[h].at = "scored"
    /\ IF handlers[h].isGameOver
       THEN /\ handlers' = [handlers EXCEPT ![h] = [@ EXCEPT !.at = "over"]]
            /\ UNCHANGED game
       ELSE Finished(h, StartRound([game EXCEPT
                                      !.currentRound = @ + 1,
                                      !.dealerIndex = (@ + 1) % Len(game.players)],
                                   seed))
    /\ UNCHANGED <<gameVars, lastOp, ruleVars, roundVars, failedDm>>

\* The handler resumes after 'GAME OVER' is sent: activeGames.delete
AfterGameOver(h) ==
    /\ handlers[h].at = "over"
    /\ Finished(h, [game EXCEPT !.live = FALSE])
    /\ UNCHANGED <<gameVars, lastOp, ruleVars, roundVars, failedDm>>

\* new Game(channelId, users), the Game the constructor leaves, held in
\* activeGames
NewGame(users) ==
    [live |-> TRUE,
     state |-> "INIT",
     players |-> [i \in 1..Len(users) |-> NewGamePlayer(users[i])],
     currentRound |-> 1,
     dealerIndex |-> 0,
     currentPlayerIndex |-> 0,
     bidsCollected |-> 0,
     spadesBroken |-> FALSE,
     trick |-> <<>>,
     teamScores |-> <<0, 0>>]

\* The four users of a Game and the users that send play commands
GameUsers == SubSeq(UserSeq, 1, NumPlayers)
PlayUsers == {UserSeq[i] : i \in 1..(NumPlayers + 1)}

\* The scores the teams can hold when a round starts
StartScores == {<<0, 0>>, <<480, 0>>}

\* A Game in its playing phase: the round dealt by startRound, every player
\* with the bid 1, the player left of the dealer to lead
PlayingGame(seed, scores) ==
    LET g == StartRound(NewGame(GameUsers), seed)
    IN  [g EXCEPT !.state = "PLAYING",
                  !.bidsCollected = Len(g.players),
                  !.players = [i \in 1..Len(g.players) |->
                                  [g.players[i] EXCEPT !.bid = MinBid]],
                  !.teamScores = scores]

InitPlays ==
    /\ GameInit
    /\ probe = NoProbe
    /\ verdict = NoVerdict
    /\ failedDm = "none"
    /\ \E seed \in Seeds, scores \in StartScores : game = PlayingGame(seed, scores)
    /\ handlers = [h \in 1..NumHandlers |-> IdleHandler]

NextPlays ==
    \E h \in 1..NumHandlers :
        \/ \E user \in PlayUsers, card \in PlayInputs : PlayCommand(h, user, card)
        \/ AfterReply(h)
        \/ AfterBreak(h)
        \/ AfterTrickWon(h)
        \/ \E seed \in Seeds : AfterRoundScored(h, seed)
        \/ AfterGameOver(h)

SpecPlays == InitPlays /\ [][NextPlays]_vars

----------------------------------------------------------------------------
(* index.js: the end of a round of a Game, from drawn last tricks *)

\* The scores a team can hold before the last round is scored, and the bids
\* of the four players
PriorScores == {0, 480, 0 - 180}
ScoreBids == {<<1, 1, 1, 1>>, <<GameNilBid, 1, 1, 1>>, <<GameNilBid, 1, GameNilBid, 1>>}

\* The last trick of a round: the first four cards of the deck from the r-th
\* on, played in turn from the seat lead on
GameLastTrick(lead, r) ==
    [k \in 1..NumPlayers |->
        [playerId |-> GameUsers[((lead + k - 1) % NumPlayers) + 1],
         card |-> GameCreateDeck(NumRanks)[((r + k - 1) % NumPlayers) + 1],
         seat |-> (lead + k - 1) % NumPlayers]]

\* A Game whose last trick of the round has just been won: the hands are
\* empty, the winner of the trick has it counted, the earlier tricks of the
\* round are with the seat before, and the handler of the fourth play is at
\* the await after 'TRICK WON'
InitScore ==
    /\ GameInit
    /\ probe = NoProbe
    /\ verdict = NoVerdict
    /\ failedDm = "none"
    /\ \E lead \in 0..(NumPlayers - 1), r \in 0..(NumPlayers - 1),
          before \in 0..(NumPlayers - 1), bids \in ScoreBids,
          s1 \in PriorScores, s2 \in PriorScores, broken \in BOOLEAN :
          LET trick == GameLastTrick(lead, r)
              winner == DetermineTrickWinner(trick).seat
              tricksOf(i) == (IF i = winner THEN 1 ELSE 0)
                                 + (IF i = before THEN NumRanks - 1 ELSE 0)
              g == NewGame(GameUsers)
          IN  /\ BrokenAfterWinner(trick, broken) = broken
              /\ (\E k \in 1..NumPlayers : trick[k].card.suitCode = "S") => broken
              /\ game = [g EXCEPT
                           !.state = "PLAYING",
                           !.bidsCollected = NumPlayers,
                           !.currentPlayerIndex = lead,
                           !.spadesBroken = broken,
                           !.trick = trick,
                           !.teamScores = <<s1, s2>>,
                           !.players = [i \in 1..NumPlayers |->
                                           [g.players[i] EXCEPT
                                              !.bid = bids[i],
                                              !.tricks = tricksOf(i - 1)]]]
              /\ handlers = [h \in 1..NumHandlers |->
                                IF h = 1
                                THEN [IdleHandler EXCEPT
                                        !.at = "won",
                                        !.user = trick[NumPlayers].playerId,
                                        !.card = trick[NumPlayers].card,
                                        !.winner = winner,
                                        !.reply = "played"]
                                ELSE IdleHandler]

NextScore ==
    \E h \in 1..NumHandlers :
        \/ AfterTrickWon(h)
        \/ \E seed \in Seeds : AfterRoundScored(h, seed)
        \/ AfterGameOver(h)

SpecScore == InitScore /\ [][NextScore]_vars

\* The step in which the handler h has calculateRoundScores score the round,
\* and the step in which it acts on the isGameOver it was given
RoundScoredBy(h) == handlers[h].at = "won" /\ handlers'[h].at = "scored"
RoundClosedBy(h) == handlers[h].at = "scored" /\ handlers'[h].at # "scored"

\* A team is at or above the target score
TargetReached(teamScores) == teamScores[1] >= MaxScore \/ teamScores[2] >= MaxScore

\* C21: calculateRoundScores reports the game as over exactly when, with the
\* scores of the round applied, a team is at or above the target score of
\* 500; when it is over the handler goes on to end the game without starting
\* a round, and in every other case the next round starts (round number up by
\* one, fresh deal, bidding).
C21_GameOverExactlyAtTarget ==
    [][\A h \in 1..NumHandlers :
          /\ RoundScoredBy(h) =>
                 (handlers'[h].isGameOver <=> TargetReached(game'.teamScores))
          /\ RoundClosedBy(h) =>
                 IF TargetReached(game.teamScores)
                 THEN handlers'[h].at = "over" /\ game'.currentRound = game.currentRound
                 ELSE /\ game'.currentRound = game.currentRound + 1
                      /\ game'.state = "BIDDING"
                      /\ \A i \in 1..NumPlayers :
                             Cardinality(game'.players[i].hand) = NumRanks
      ]_vars

----------------------------------------------------------------------------
(* Play commands one at a time (SpecPlays) *)

\* The handlers that are between two of their awaits
InFlight == {h \in 1..NumHandlers : handlers[h].at # "idle"}

\* No player has two cards on the trick, and the trick has at most 4 cards
TrickOfDistinctPlayers ==
    /\ Len(game.trick) <= NumPlayers
    /\ \A i, j \in 1..Len(game.trick) :
           i # j => game.trick[i].playerId # game.trick[j].playerId

----------------------------------------------------------------------------
(* index.js: private messages (privatePrompt) and their delivery *)

\* privatePrompt(playerId, message) with the failure of users.fetch or
\* user.send not caught
PrivatePromptUncaught(delivered) == IF delivered THEN "fulfilled" ELSE "rejected"

\* privatePrompt(playerId, message): how the promise it returns settles. The
\* failure of users.fetch or of user.send is caught and logged, so the promise
\* is fulfilled whether the message is delivered or not
PrivatePrompt(delivered) == "fulfilled"

\* The last call has sent a private message: processBid on every path,
\* tryPlaceBid when it has accepted the bid (sendBidPrompt or, after the last
\* bid, sendPlayCardPrompt), processCardPlay when it has rejected the play
\* without throwing, and the call that has dealt the hands
PrivatePromptSent ==
    \/ lastOp.op = "processBid"
    \/ lastOp.op \in {"tryPlaceBid", "bidButton"} /\ lastOp.outcome = "accepted"
    \/ lastOp.op = "processCardPlay" /\ lastOp.outcome = "rejected" /\ ~lastOp.threw
    \/ /\ lastOp.op \in {"join", "startGame"}
       /\ lastOp.outcome = "accepted"
       /\ isBiddingActive
       /\ bidsTaken = 0

\* The promise of a private message of the last call settles. GameManager
\* calls privatePrompt without await and without catch: a promise that is
\* rejected is an unhandled rejection, which ends the process and with it the
\* games of activeGames; a promise that is fulfilled changes nothing
SettleDm(delivered) ==
    /\ PrivatePromptSent
    /\ failedDm' = IF failedDm = "none" /\ ~delivered THEN lastOp.op ELSE failedDm
    /\ IF PrivatePrompt(delivered) = "rejected"
       THEN /\ players' = <<>>
            /\ deck' = DeckReset(NumRanks)
            /\ isGameActive' = FALSE
            /\ state' = "LOBBY"
            /\ currentPlayerIndex' = 0
            /\ bidsTaken' = 0
            /\ isBiddingActive' = FALSE
            /\ isTrickActive' = FALSE
            /\ currentTrick' = <<>>
            /\ trickSuit' = "null"
            /\ spadesBroken' = FALSE
            /\ firstBidder' = 0 - 1
            /\ lastOp' = [op |-> "constructor", outcome |-> "accepted",
                          why |-> "none", threw |-> FALSE]
       ELSE UNCHANGED <<gameVars, lastOp>>
    /\ UNCHANGED <<ruleVars, roundVars, engineVars>>

\* The GameManager state machine with the private messages delivered or not,
\* the deck shuffled one way
NextNotify ==
    \/ \E id \in JoinIds : JoinHandler(id, 0)
    \/ \E id \in Callers, part \in PlayBidParts : BidButton(id, part)
    \/ \E id \in Callers, raw \in PlayRawBids : ProcessBid(id, raw)
    \/ \E id \in Callers, raw \in RawCards : ProcessCardPlay(id, raw)
    \/ \E delivered \in BOOLEAN : SettleDm(delivered)

SpecNotify == Init /\ [][NextNotify]_vars

\* C30: a private message that cannot be delivered neither changes nor blocks
\* the game: the step in which the delivery of a message succeeds or fails
\* leaves the whole game state and the outcome of the last call as they are,
\* whichever way it goes, and only such a step touches the record of failed
\* deliveries, which no call reads.
C30_DeliveryFailureChangesNothing ==
    [][/\ (\E delivered \in BOOLEAN : SettleDm(delivered)) => UNCHANGED <<gameVars, lastOp>>
       /\ failedDm' # failedDm => /\ failedDm = "none"
                                  /\ failedDm' = lastOp.op
                                  /\ PrivatePromptSent
                                  /\ UNCHANGED <<gameVars, lastOp>>
      ]_vars

\* The message with the hand of the deal was not delivered, and the four
\* bids were taken and a card was played all the same
C30_Witness ==
    /\ failedDm = "join"
    /\ bidsTaken = NumPlayers
    /\ lastOp.op = "processCardPlay"
    /\ lastOp.outcome = "accepted"
    /\ Len(currentTrick) >= 1

----------------------------------------------------------------------------
(* Deck.js: the deck on its own (SpecDeck) *)

\* Deck.deal(): this.cards.pop(), the value returned and the cards left; pop
\* on an empty array returns undefined and throws nothing
DeckDeal(cards) ==
    IF cards = <<>>
    THEN [value |-> NoCard, cards |-> <<>>, threw |-> FALSE]
    ELSE [value |-> cards[Len(cards)], cards |-> SubSeq(cards, 1, Len(cards) - 1),
          threw |-> FALSE]

\* A call on the deck leaves everything but the deck, the value returned
\* (probe.card) and the record of the call as it is
DeckCall(op, cards, value, threw) ==
    /\ deck' = cards
    /\ probe' = [NoProbe EXCEPT !.kind = op, !.card = value]
    /\ lastOp' = [op |-> op, outcome |-> IF threw THEN "rejected" ELSE "accepted",
                  why |-> IF threw THEN "deckExhausted" ELSE "none", threw |-> threw]
    /\ UNCHANGED <<players, isGameActive, state, currentPlayerIndex, bidsTaken,
                   isBiddingActive, isTrickActive, currentTrick, trickSuit,
                   spadesBroken, firstBidder, verdict, roundVars, engineVars, failedDm>>

\* deck.reset(), deck.shuffle() and deck.deal()
DeckResetCall == DeckCall("reset", DeckReset(NumRanks), NoCard, FALSE)
DeckShuffleCall(seed) == DeckCall("shuffle", DeckShuffle(deck, seed), NoCard, FALSE)
DeckDealCall ==
    DeckCall("deal", DeckDeal(deck).cards, DeckDeal(deck).value, DeckDeal(deck).threw)

NextDeck ==
    \/ DeckResetCall
    \/ \E seed \in Seeds : DeckShuffleCall(seed)
    \/ DeckDealCall

SpecDeck == Init /\ [][NextDeck]_vars

\* C31: deal() on a deck that holds cards takes the last card off the deck and
\* returns it; on an empty deck (a deal too many since the last reset) it
\* fails with the DeckExhausted error and returns no value, card or other.
C31_DealFailsOnEmptyDeck ==
    [][lastOp'.op = "deal" =>
          IF deck = <<>>
          THEN /\ lastOp'.threw
               /\ lastOp'.why = "deckExhausted"
               /\ deck' = <<>>
          ELSE /\ ~lastOp'.threw
               /\ probe'.card = deck[Len(deck)]
               /\ deck' = SubSeq(deck, 1, Len(deck) - 1)
      ]_vars

----------------------------------------------------------------------------
(* The trick between two calls (Spec) *)

\* The led suit is set exactly when the trick holds a play, and is the suit
\* of its first play
LedSuitOfTrick ==
    /\ (trickSuit # "null") <=> (currentTrick # <<>>)
    /\ currentTrick # <<>> => trickSuit = currentTrick[1].card.suitCode

\* C32: between two calls the current trick holds at most 3 plays, the fourth
\* play having had the winner determined and the trick and the led suit
\* cleared, and the led suit is set exactly when the trick is not empty, to
\* the suit of its first play.
C32_TrickClearedAfterWinner ==
    /\ Len(currentTrick) <= NumPlayers - 1
    /\ LedSuitOfTrick

----------------------------------------------------------------------------
(* Game.js: calculateRoundScores on rounds of 13 tricks (SpecBags) *)

\* The tricks of a round
RoundTricks == 13

\* The tricks the four players have taken in a round, the bids they hold and
\* the bags a player can bring into the round (a team: 0, 4, 5 or 9)
TricksTaken == {<<13, 0, 0, 0>>, <<7, 3, 3, 0>>, <<6, 0, 7, 0>>, <<0, 6, 0, 7>>,
                <<3, 4, 3, 3>>}
BidsHeld == {<<1, 1, 1, 1>>, <<3, 3, 3, 4>>, <<GameNilBid, 1, 1, 1>>,
             <<GameNilBid, 1, GameNilBid, 1>>}
FirstBags == {0, 4}
SecondBags == {0, 5}

\* A Game at the end of a round: every trick taken, the hands empty
InitBags ==
    /\ GameInit
    /\ probe = NoProbe
    /\ verdict = NoVerdict
    /\ failedDm = "none"
    /\ handlers = <<>>
    /\ \E tricks \in TricksTaken, bids \in BidsHeld,
          b1 \in FirstBags, b2 \in FirstBags, b3 \in SecondBags, b4 \in SecondBags :
          LET g == NewGame(GameUsers)
              bags == <<b1, b2, b3, b4>>
          IN  /\ tricks[1] + tricks[2] + tricks[3] + tricks[4] = RoundTricks
              /\ game = [g EXCEPT
                           !.state = "PLAYING",
                           !.bidsCollected = NumPlayers,
                           !.players = [i \in 1..NumPlayers |->
                                           [g.players[i] EXCEPT !.bid = bids[i],
                                                                !.tricks = tricks[i],
                                                                !.bags = bags[i]]]]

\* game.calculateRoundScores(), called once on the round
CalculateRoundScoresCall ==
    /\ lastOp.op = "constructor"
    /\ game' = CalculateRoundScores(game)
    /\ lastOp' = [op |-> "calculateRoundScores", outcome |-> "accepted",
                  why |-> IF IsGameOver(CalculateRoundScores(game).teamScores)
                          THEN "gameOver" ELSE "none",
                  threw |-> FALSE]
    /\ UNCHANGED <<gameVars, ruleVars, roundVars, handlers, failedDm>>

NextBags == CalculateRoundScoresCall

SpecBags == InitBags /\ [][NextBags]_vars

\* The bags of the team (0 or 1) of the Game g
GameTeamBags(g, teamIndex) == g.players[teamIndex + 1].bags + g.players[teamIndex + 3].bags

\* C33: calculateRoundScores leaves every team with 0 to 9 bags: the bags it
\* brought into the round and those of the round, less 10 for every penalty,
\* and the score of the team takes the outcome of its bids less 100 for
\* every 10 bags removed.
C33_BagsNormalisedAfterScoring ==
    [][lastOp'.op = "calculateRoundScores" /\ lastOp.op = "constructor" =>
          \A teamIndex \in 0..1 :
              LET outcome == ScoreDeltaAndBags(game.players[teamIndex + 1],
                                               game.players[teamIndex + 3])
                  removed == outcome.bags - GameTeamBags(game', teamIndex)
              IN  /\ GameTeamBags(game, teamIndex) \in 0..9
                  /\ GameTeamBags(game', teamIndex) \in 0..9
                  /\ removed % 10 = 0
                  /\ game'.teamScores[teamIndex + 1] =
                         game.teamScores[teamIndex + 1] + outcome.delta
                             - 100 * (removed \div 10)
      ]_vars

----------------------------------------------------------------------------
(* Spades broken in the play command (SpecPlays) *)

----------------------------------------------------------------------------
(* The members of a team after the scoring of a round (SpecRound) *)

\* The two seats of a team hold the same score, the score announced for the
\* team
SameTeamScore(ps, teamId) ==
    \A i \in 1..Len(ps) : ps[i].team = teamId => ps[i].score = TeamScore(ps, teamId)

\* At most one seat of a team holds bags
OneBagHolder(ps, teamId) ==
    Cardinality({i \in 1..Len(ps) : ps[i].team = teamId /\ ps[i].bags # 0}) <= 1

\* C35: after the scoring of a round the two players of a team hold the
\* same score, the score announced for the team, and at most one player
\* of each team holds bags.
C35_TeamMembersScoreAlike ==
    lastOp.op = "endRound" =>
        \A k \in 1..Len(TeamIds) :
            SameTeamScore(players, TeamIds[k]) /\ OneBagHolder(players, TeamIds[k])

\* The half of C35 about the bags
C35_OneBagHolderPerTeam ==
    lastOp.op = "endRound" =>
        \A k \in 1..Len(TeamIds) : OneBagHolder(players, TeamIds[k])

----------------------------------------------------------------------------
(* The count of the tricks a player has won (Spec) *)

\* The tricks-won count of a player as a number: tricksWon where the player
\* has it, else the tricksTaken the constructor of Player sets
WonCount(p) == IF TricksWonOf(p).k = "int" THEN TricksWonOf(p).v ELSE p.tricksTaken

\* C36: the accepted play of the fourth card of a trick completes without
\* an exception, adds exactly 1 to the tricks-won count of the winner of the
\* trick and leaves the count of every other player as it was.
C36_FourthCardCountsATrick ==
    [][(AcceptedPlay /\ Len(currentTrick) = NumPlayers - 1) =>
          LET trick == Append(currentTrick, [playerId |-> players[currentPlayerIndex + 1].discordId,
                                              card |-> CHOOSE c \in players[currentPlayerIndex + 1].hand :
                                                          c \notin players'[currentPlayerIndex + 1].hand,
                                              seat |-> currentPlayerIndex])
              winner == GetPlayerSeat(players, GetWinnerOfTrick(trick, trickSuit).playerId)
          IN  /\ ~lastOp'.threw
              /\ \A i \in 1..Len(players) :
                     WonCount(players'[i]) = WonCount(players[i]) + (IF i = winner THEN 1 ELSE 0)
      ]_vars

\* The half of C36 that no exception reaches the caller
C36_FourthCardCompletes ==
    [][(AcceptedPlay /\ Len(currentTrick) = NumPlayers - 1) => ~lastOp'.threw]_vars

\* The half of C36 about the counts
C36_WinnerCountGrows ==
    [][(AcceptedPlay /\ Len(currentTrick) = NumPlayers - 1) =>
          \E i \in 1..Len(players) : WonCount(players'[i]) = WonCount(players[i]) + 1]_vars

----------------------------------------------------------------------------
(* The seats of a lobby any user may join (SpecSeats) *)

\* The users that press the join button: the user that opened the lobby,
\* who holds a seat, and the next user that has not joined yet
SeatIds == {UserSeq[1]} \cup JoinIds

\* The lobby, the bidding and the play of a game whose join button is
\* pressed by seated users as well
NextSeats ==
    \/ \E id \in SeatIds : AddPlayerCall(id)
    \/ \E id \in SeatIds, seed \in Seeds : JoinHandler(id, seed)
    \/ \E id \in Callers, raw \in PlayRawBids : ProcessBid(id, raw)
    \/ \E id \in Callers, raw \in RawCards : ProcessCardPlay(id, raw)

SpecSeats == Init /\ [][NextSeats]_vars

\* C37: whatever addPlayer calls were made, no two seats hold the same
\* player id.
C37_SeatsHoldDistinctIds ==
    \A i \in 1..Len(players) : \A j \in 1..Len(players) :
        players[i].discordId = players[j].discordId => i = j

\* The consequence C37 draws: the card of an accepted play leaves the hand
\* of the seat whose turn it is
C37_ActorIsAtTurn ==
    [][AcceptedPlay =>
          players'[currentPlayerIndex + 1].hand # players[currentPlayerIndex + 1].hand
      ]_vars

----------------------------------------------------------------------------
(* index.js: the join button handler and its await (SpecJoin) *)

\* The join handler from its start to `await interaction.update` (lines
\* 221-264): the lobby must be open, addPlayer, and the handler waits for the
\* update of the lobby message
JoinClick(id) ==
    /\ IF state # "LOBBY" THEN Reject("join", "notLobby") /\ UNCHANGED handlers
       ELSE IF AddPlayerFails(players)
            THEN Reject("join", "lobbyFull") /\ UNCHANGED handlers
       ELSE /\ players' = AddPlayer(players, id)
            /\ Accept("join")
            /\ handlers' = Append(handlers, [IdleHandler EXCEPT !.at = "update",
                                                                !.user = id])
            /\ UNCHANGED <<deck, isGameActive, state, currentPlayerIndex, bidsTaken,
                           isBiddingActive, isTrickActive, currentTrick, trickSuit,
                           spadesBroken, firstBidder>>
    /\ UNCHANGED <<ruleVars, roundVars, game, failedDm>>

\* The join handler h from the return of `await interaction.update` to its
\* end (lines 266-282): startGame() if the lobby is full now; the messages it
\* then sends read the game and change nothing. The why of the step is
\* "started" when startGame has dealt and opened the bidding.
JoinResume(h, seed) ==
    /\ h \in 1..Len(handlers)
    /\ handlers[h].at = "update"
    /\ handlers' = SubSeq(handlers, 1, h - 1) \o SubSeq(handlers, h + 1, Len(handlers))
    /\ IF IsLobbyFull(players) /\ Len(players) = NumPlayers
       THEN /\ StartGame(players, seed)
            /\ Ended("joinResume", "accepted", "started", FALSE)
       ELSE /\ Ended("joinResume", "accepted", "none", FALSE)
            /\ UNCHANGED gameVars
    /\ UNCHANGED <<ruleVars, roundVars, game, failedDm>>

\* The join handlers interleaved at their await, and the bids of the players
NextJoin ==
    \/ \E id \in JoinIds : JoinClick(id)
    \/ \E h \in 1..NumPlayers, seed \in Seeds : JoinResume(h, seed)
    \/ \E id \in Callers, raw \in PlayRawBids : ProcessBid(id, raw)
    \/ \E id \in Callers, part \in PlayBidParts : BidButton(id, part)

SpecJoin == Init /\ [][NextJoin]_vars

\* A step in which a join handler runs startGame
StartsGame == lastOp'.op = "joinResume" /\ lastOp'.why = "started"

\* C38: however the join handlers interleave at their awaits, a lobby that
\* fills is started once: every run of startGame is on a game that has not
\* been started, so no bid taken is discarded by a second deal.
C38_LobbyStartedOnce ==
    [][StartsGame => (~isGameActive /\ state = "LOBBY" /\ bidsTaken = 0)]_vars

\* The half of C38 about the bids: no run of startGame discards a bid
C38_NoBidDiscarded ==
    [][StartsGame => \A i \in 1..Len(players) : players[i].bid = JSNull]_vars

\* A lobby that is full and whose handlers have all ended has been started
C38_FullLobbyIsStarted ==
    (Len(players) = NumPlayers /\ handlers = <<>>) => isGameActive

----------------------------------------------------------------------------
(* The progress of trick play (SpecTurns) *)

\* The texts processCardPlay is called with in SpecTurns: what a player types
\* for every card of the deck
TypedCards == {TypedCode(c) : c \in CardsOf(NumRanks)}

\* The player whose turn it is submits a card of the hand and processCardPlay
\* accepts it
LegalPlay ==
    /\ isTrickActive
    /\ \E c \in players[currentPlayerIndex + 1].hand :
           ProcessCardPlay(players[currentPlayerIndex + 1].discordId, TypedCode(c))
    /\ AcceptedPlay

\* The steps of LegalPlay written out, the path of processCardPlay on which
\* every check passes: the player at the turn plays card c of the hand, which
\* the lead rule or the follow rule admits
PlayLegalCard ==
    /\ isTrickActive
    /\ players # <<>>
    /\ \E seat \in {currentPlayerIndex + 1} : \E c \in players[seat].hand :
       \E ledSuit \in {IF Len(currentTrick) = 0 THEN c.suitCode ELSE trickSuit} :
       \E breaks \in {BreaksSpades(c, ledSuit, spadesBroken)} :
           /\ GetPlayerSeat(players, players[seat].discordId) = seat
           /\ IF Len(currentTrick) = 0
              THEN ~LeadRefused(players[seat].hand, c, spadesBroken)
              ELSE ~FollowRefused(players[seat].hand, c, trickSuit)
           /\ players' = [players EXCEPT ![seat].hand = @ \ {c}]
           /\ currentTrick' = Append(currentTrick,
                  [playerId |-> players[seat].discordId, card |-> c,
                   seat |-> currentPlayerIndex])
           /\ trickSuit' = ledSuit
           /\ spadesBroken' = (spadesBroken \/ breaks)
           /\ currentPlayerIndex' = IF Len(currentTrick) + 1 = Len(players)
                                    THEN currentPlayerIndex
                                    ELSE AdvanceTurn(currentPlayerIndex, Len(players))
           /\ lastOp' = [op |-> "processCardPlay", outcome |-> "accepted",
                         why |-> IF breaks THEN "spadesBroken" ELSE "none",
                         threw |-> TRUE]
    /\ UNCHANGED <<deck, isGameActive, state, bidsTaken, isBiddingActive,
                   isTrickActive, firstBidder, probe, verdict, roundTricks, gameOver,
                   game, handlers, failedDm>>

\* The steps of PlayLegalCard are the accepted calls of processCardPlay
PlayLegalCardIsLegalPlay ==
    [][(AcceptedPlay <=> PlayLegalCard) /\ (PlayLegalCard <=> LegalPlay)]_vars

\* The users that call in SpecTurns: the player whose turn it is and the
\* player before
TurnCallers ==
    IF players = <<>> THEN {}
    ELSE {players[currentPlayerIndex + 1].discordId,
          players[((currentPlayerIndex + Len(players) - 1) % Len(players)) + 1].discordId}

\* The lobby, the bidding and the trick play of GameManager
NextTurns ==
    \/ \E id \in JoinIds, seed \in Seeds : JoinHandler(id, seed)
    \/ \E id \in TurnCallers, raw \in PlayRawBids : ProcessBid(id, raw)
    \/ \E id \in TurnCallers, raw \in TypedCards : ProcessCardPlay(id, raw)

\* The GameManager state machine in which a legal card that can be submitted
\* is submitted in the end
SpecTurns == Init /\ [][NextTurns]_vars /\ WF_vars(PlayLegalCard)

\* The player whose turn it is holds a card processCardPlay accepts
TurnHolderCanPlay ==
    LET hand == players[currentPlayerIndex + 1].hand
    IN  \E c \in hand :
            IF Len(currentTrick) = 0 THEN ~LeadRefused(hand, c, spadesBroken)
                                     ELSE ~FollowRefused(hand, c, trickSuit)

\* The half of C39 about the states: during trick play the player whose turn
\* it is holds a card that is accepted
C39_TurnHolderCanPlay == isTrickActive => TurnHolderCanPlay

\* The half of C39 about progress: trick play comes to its end, the scoring
\* of the round
C39_RoundIsScored == isTrickActive ~> ~isTrickActive

\* C39: trick play never deadlocks: in every state of trick play the player
\* whose turn it is holds a card processCardPlay accepts, and when legal
\* cards keep being submitted the round reaches its last trick and its
\* scoring, which ends trick play.
C39_TrickPlayNeverDeadlocks ==
    /\ [](isTrickActive => TurnHolderCanPlay)
    /\ (isTrickActive ~> ~isTrickActive)

\* Until the first trick is complete the player whose turn it is holds a
\* card that is accepted
C39_CanPlayInFirstTrick ==
    (isTrickActive /\ Len(currentTrick) < NumPlayers) => TurnHolderCanPlay

====
